---- MODULE Spec2Model ----
(***************************************************************************)
(* State-machine model of the tcmu-runner ZBC / Zone Domains file handler  *)
(* (src/file_dhsmr.c).  The emulated device is one record, zdev, holding   *)
(* the fields of struct zbc_dev together with the mapped metadata (zone    *)
(* array, zone lists, domains, realms).  Every C function that mutates     *)
(* the device is an operator from a device record to a device record;      *)
(* every SCSI command is one action.                                       *)
(***************************************************************************)
EXTENDS Integers, Sequences, FiniteSets, TLC

\* fw is the state of the framework's command delivery for the device.
VARIABLES zdev, rsp, nr_ops, fw

vars == <<zdev, rsp, nr_ops, fw>>

(***************************************************************************)
(* Enumerations and sentinels                                              *)
(***************************************************************************)
ZBC_ZONE_TYPE_CONVENTIONAL == 1
ZBC_ZONE_TYPE_SEQWRITE_REQ == 2
ZBC_ZONE_TYPE_SEQWRITE_PREF == 3
ZBC_ZONE_TYPE_SEQ_OR_BEF_REQ == 4
ZBC_ZONE_TYPE_GAP == 5

ZBC_ZONE_COND_NOT_WP == 0
ZBC_ZONE_COND_EMPTY == 1
ZBC_ZONE_COND_IMP_OPEN == 2
ZBC_ZONE_COND_EXP_OPEN == 3
ZBC_ZONE_COND_CLOSED == 4
ZBC_ZONE_COND_INACTIVE == 5
ZBC_ZONE_COND_READONLY == 13
ZBC_ZONE_COND_FULL == 14
ZBC_ZONE_COND_OFFLINE == 15

\* ULLONG_MAX in the source; any value above every LBA behaves the same.
ZBC_NO_WP == 2147483647
\* UINT_MAX in the source; any value above every zone index behaves the same.
ZBC_LIST_NIL == 2147483646

ZBC_MT_NON_ZONED == 1
ZBC_MT_HM_ZONED == 2
ZBC_MT_HA_ZONED == 3
ZBC_MT_ZONE_DOM == 4

ZBC_MO_NZ_GENERIC == 1
ZBC_MO_SMR_NO_CMR == 1
ZBC_MO_ZD_1_CMR_BOT == 2
ZBC_MO_ZD_SOBR_NO_CMR == 4
ZBC_MO_ZD_BBONE == 6
ZBC_MO_ZD_SOBR_EMPTY == 10

ZBC_ACTV_ERR_NOT_INACTIVE == 1
ZBC_ACTV_ERR_NOT_EMPTY == 2
ZBC_ACTV_ERR_REALM_ALIGN == 4
ZBC_ACTV_ERR_MULTI_TYPES == 8
ZBC_ACTV_ERR_UNSUPP == 16
ZBC_ACTV_ERR_MULTI_DOMAINS == 32

ZBC_ACTV_STAT_NZP_VALID == 128
ZBC_ACTV_STAT_ZIWUP_VALID == 64
ZBC_ACTV_STAT_ACTIVATED == 1

Min(a, b) == IF a < b THEN a ELSE b

Max(a, b) == IF a > b THEN a ELSE b

(***************************************************************************)
(* Zone predicates (the zbc_zone_xxx macros)                               *)
(***************************************************************************)
zbc_zone_conv(z) == z.type = ZBC_ZONE_TYPE_CONVENTIONAL

zbc_zone_seq_req(z) == z.type = ZBC_ZONE_TYPE_SEQWRITE_REQ

zbc_zone_seq_pref(z) == z.type = ZBC_ZONE_TYPE_SEQWRITE_PREF

zbc_zone_sobr(z) == z.type = ZBC_ZONE_TYPE_SEQ_OR_BEF_REQ

zbc_zone_seq(z) == ~zbc_zone_conv(z) /\ ~zbc_zone_sobr(z)

zbc_zone_nseq(z) == zbc_zone_conv(z) \/ zbc_zone_sobr(z)

zbc_zone_gap(z) == z.type = ZBC_ZONE_TYPE_GAP

zbc_zone_not_wp(z) == z.cond = ZBC_ZONE_COND_NOT_WP

zbc_zone_empty(z) == z.cond = ZBC_ZONE_COND_EMPTY

zbc_zone_imp_open(z) == z.cond = ZBC_ZONE_COND_IMP_OPEN

zbc_zone_exp_open(z) == z.cond = ZBC_ZONE_COND_EXP_OPEN

zbc_zone_is_open(z) == zbc_zone_imp_open(z) \/ zbc_zone_exp_open(z)

zbc_zone_closed(z) == z.cond = ZBC_ZONE_COND_CLOSED

zbc_zone_inactive(z) == z.cond = ZBC_ZONE_COND_INACTIVE

zbc_zone_rdonly(z) == z.cond = ZBC_ZONE_COND_READONLY

zbc_zone_full(z) == z.cond = ZBC_ZONE_COND_FULL

zbc_zone_offline(z) == z.cond = ZBC_ZONE_COND_OFFLINE

(***************************************************************************)
(* Zone lists.  A list is named by the zdev field that holds its           *)
(* head/tail/size record.                                                  *)
(***************************************************************************)
zbc_init_zone_list == [head |-> ZBC_LIST_NIL, tail |-> ZBC_LIST_NIL, size |-> 0]

zbc_zone_not_in_list(z) == z.prev = 0 /\ z.next = 0

\* zbc_add_zone_head() that links the zone at the tail of the list.
zbc_add_zone_head_at_tail(d, zl, idx) ==
    IF d[zl].size = 0
    THEN [d EXCEPT ![zl] = [head |-> idx, tail |-> idx, size |-> 1],
                   !.zones[idx].next = ZBC_LIST_NIL,
                   !.zones[idx].prev = ZBC_LIST_NIL]
    ELSE LET d1 == [d EXCEPT !.zones[d[zl].tail].next = idx]
             d2 == [d1 EXCEPT !.zones[idx].prev = d[zl].tail]
             d3 == [d2 EXCEPT !.zones[idx].next = ZBC_LIST_NIL]
         IN [d3 EXCEPT ![zl].tail = idx, ![zl].size = @ + 1]

zbc_add_zone_head(d, zl, idx) ==
    IF d[zl].size = 0
    THEN [d EXCEPT ![zl] = [head |-> idx, tail |-> idx, size |-> 1],
                   !.zones[idx].next = ZBC_LIST_NIL,
                   !.zones[idx].prev = ZBC_LIST_NIL]
    ELSE LET d1 == [d EXCEPT !.zones[d[zl].head].prev = idx]
             d2 == [d1 EXCEPT !.zones[idx].next = d[zl].head]
             d3 == [d2 EXCEPT !.zones[idx].prev = ZBC_LIST_NIL]
         IN [d3 EXCEPT ![zl].head = idx, ![zl].size = @ + 1]

\* zbc_add_zone_tail() without the size update of a list that is not empty.
zbc_add_zone_tail_no_size(d, zl, idx) ==
    IF d[zl].size = 0
    THEN [d EXCEPT ![zl] = [head |-> idx, tail |-> idx, size |-> 1],
                   !.zones[idx].next = ZBC_LIST_NIL,
                   !.zones[idx].prev = ZBC_LIST_NIL]
    ELSE [d EXCEPT !.zones[d[zl].tail].next = idx,
                   !.zones[idx].prev = d[zl].tail,
                   !.zones[idx].next = ZBC_LIST_NIL,
                   ![zl].tail = idx]

zbc_add_zone_tail(d, zl, idx) ==
    IF d[zl].size = 0
    THEN [d EXCEPT ![zl] = [head |-> idx, tail |-> idx, size |-> 1],
                   !.zones[idx].next = ZBC_LIST_NIL,
                   !.zones[idx].prev = ZBC_LIST_NIL]
    ELSE LET d1 == [d EXCEPT !.zones[d[zl].tail].next = idx]
             d2 == [d1 EXCEPT !.zones[idx].prev = d[zl].tail]
             d3 == [d2 EXCEPT !.zones[idx].next = ZBC_LIST_NIL]
         IN [d3 EXCEPT ![zl].tail = idx, ![zl].size = @ + 1]

zbc_remove_zone(d, zl, idx) ==
    LET zone == d.zones[idx]
        sz == d[zl].size - 1
        d1 == [d EXCEPT ![zl].size = sz]
        d2 == IF sz = 0
              THEN [d1 EXCEPT ![zl].head = ZBC_LIST_NIL,
                              ![zl].tail = ZBC_LIST_NIL]
              ELSE IF idx = d[zl].head
              THEN [d1 EXCEPT ![zl].head = zone.next,
                              !.zones[zone.next].prev = ZBC_LIST_NIL]
              ELSE IF idx = d[zl].tail
              THEN [d1 EXCEPT ![zl].tail = zone.prev,
                              !.zones[zone.prev].next = ZBC_LIST_NIL]
              ELSE LET e == [d1 EXCEPT !.zones[zone.next].prev = zone.prev]
                   IN [e EXCEPT !.zones[zone.prev].next = zone.next]
    IN [d2 EXCEPT !.zones[idx].prev = 0, !.zones[idx].next = 0]

\* zbc_unlink_zone() without the case of the Empty and Full zones.
zbc_unlink_zone_open_only(d, idx) ==
    LET zone == d.zones[idx] IN
    IF zbc_zone_not_in_list(zone) THEN d
    ELSE IF zone.cond = ZBC_ZONE_COND_IMP_OPEN
    THEN zbc_remove_zone(d, "imp_open_zones", idx)
    ELSE IF zone.cond = ZBC_ZONE_COND_EXP_OPEN
    THEN zbc_remove_zone(d, "exp_open_zones", idx)
    ELSE IF zone.cond = ZBC_ZONE_COND_CLOSED
    THEN zbc_remove_zone(d, "closed_zones", idx)
    ELSE d

zbc_unlink_zone(d, idx) ==
    LET zone == d.zones[idx] IN
    IF zbc_zone_not_in_list(zone) THEN d
    ELSE IF zone.cond = ZBC_ZONE_COND_IMP_OPEN
    THEN zbc_remove_zone(d, "imp_open_zones", idx)
    ELSE IF zone.cond = ZBC_ZONE_COND_EXP_OPEN
    THEN zbc_remove_zone(d, "exp_open_zones", idx)
    ELSE IF zone.cond = ZBC_ZONE_COND_CLOSED
    THEN zbc_remove_zone(d, "closed_zones", idx)
    ELSE IF zone.cond \in {ZBC_ZONE_COND_EMPTY, ZBC_ZONE_COND_FULL}
    THEN zbc_remove_zone(d, "seq_active_zones", idx)
    ELSE d

(***************************************************************************)
(* Device feature profiles (the modelled rows of zbc_opt_feat)             *)
(***************************************************************************)
zbc_dev_features ==
    [type |-> 0, model |-> 0, opt_name |-> "",
     initial_cmr_type |-> 0, initial_cmr_cond |-> 0,
     initial_smr_type |-> 0, initial_smr_cond |-> 0,
     actv_of_sobr |-> FALSE, actv_of_conv |-> FALSE,
     actv_of_seq_req |-> FALSE, actv_of_seq_pref |-> FALSE,
     no_za_control |-> FALSE, max_act_control |-> FALSE,
     no_ur_control |-> FALSE, no_nozsrc |-> FALSE,
     initial_wp_check |-> 0,
     nr_bot_cmr |-> 0, nr_top_cmr |-> 0, domain_gap |-> 0]

zbc_opt_feat ==
    << [zbc_dev_features EXCEPT
            !.opt_name = "NON_ZONED", !.type = ZBC_MT_NON_ZONED,
            !.model = ZBC_MO_NZ_GENERIC],
       [zbc_dev_features EXCEPT
            !.opt_name = "HM_ZONED", !.type = ZBC_MT_HM_ZONED,
            !.model = ZBC_MO_SMR_NO_CMR,
            !.initial_cmr_type = ZBC_ZONE_TYPE_CONVENTIONAL,
            !.initial_cmr_cond = ZBC_ZONE_COND_NOT_WP,
            !.initial_smr_type = ZBC_ZONE_TYPE_SEQWRITE_REQ,
            !.initial_smr_cond = ZBC_ZONE_COND_EMPTY],
       [zbc_dev_features EXCEPT
            !.opt_name = "HA_ZONED", !.type = ZBC_MT_HA_ZONED,
            !.model = ZBC_MO_SMR_NO_CMR,
            !.initial_cmr_type = ZBC_ZONE_TYPE_CONVENTIONAL,
            !.initial_cmr_cond = ZBC_ZONE_COND_NOT_WP,
            !.initial_smr_type = ZBC_ZONE_TYPE_SEQWRITE_PREF,
            !.initial_smr_cond = ZBC_ZONE_COND_EMPTY],
       [zbc_dev_features EXCEPT
            !.opt_name = "ZD_1CMR_BOT", !.type = ZBC_MT_ZONE_DOM,
            !.model = ZBC_MO_ZD_1_CMR_BOT,
            !.initial_cmr_type = ZBC_ZONE_TYPE_CONVENTIONAL,
            !.initial_cmr_cond = ZBC_ZONE_COND_NOT_WP,
            !.initial_smr_type = ZBC_ZONE_TYPE_SEQWRITE_REQ,
            !.initial_smr_cond = ZBC_ZONE_COND_EMPTY,
            !.actv_of_conv = TRUE, !.actv_of_seq_req = TRUE,
            !.actv_of_seq_pref = TRUE, !.nr_bot_cmr = 1,
            !.max_act_control = TRUE],
       [zbc_dev_features EXCEPT
            !.opt_name = "ZD_SOBR", !.type = ZBC_MT_ZONE_DOM,
            !.model = ZBC_MO_ZD_SOBR_NO_CMR,
            !.initial_cmr_type = ZBC_ZONE_TYPE_SEQ_OR_BEF_REQ,
            !.initial_cmr_cond = ZBC_ZONE_COND_FULL,
            !.initial_smr_type = ZBC_ZONE_TYPE_SEQWRITE_REQ,
            !.initial_smr_cond = ZBC_ZONE_COND_EMPTY,
            !.actv_of_sobr = TRUE, !.actv_of_seq_req = TRUE,
            !.max_act_control = TRUE],
       [zbc_dev_features EXCEPT
            !.opt_name = "ZD_SOBR_EMPTY", !.type = ZBC_MT_ZONE_DOM,
            !.model = ZBC_MO_ZD_SOBR_EMPTY,
            !.initial_cmr_type = ZBC_ZONE_TYPE_SEQ_OR_BEF_REQ,
            !.initial_cmr_cond = ZBC_ZONE_COND_EMPTY,
            !.initial_smr_type = ZBC_ZONE_TYPE_SEQWRITE_REQ,
            !.initial_smr_cond = ZBC_ZONE_COND_EMPTY,
            !.actv_of_sobr = TRUE, !.actv_of_seq_req = TRUE,
            !.max_act_control = TRUE],
       [zbc_dev_features EXCEPT
            !.opt_name = "ZD_BARE_BONE", !.type = ZBC_MT_ZONE_DOM,
            !.model = ZBC_MO_ZD_BBONE,
            !.initial_cmr_type = ZBC_ZONE_TYPE_CONVENTIONAL,
            !.initial_cmr_cond = ZBC_ZONE_COND_NOT_WP,
            !.initial_smr_type = ZBC_ZONE_TYPE_SEQWRITE_REQ,
            !.initial_smr_cond = ZBC_ZONE_COND_EMPTY,
            !.actv_of_conv = TRUE, !.actv_of_seq_req = TRUE,
            !.no_za_control = TRUE, !.no_ur_control = TRUE] >>

\* Linear search of the profile table; the all-zero profile stands for NULL.
zbc_get_dev_features(dev_type, dev_model) ==
    LET first(tab, S) == IF S = {} THEN zbc_dev_features
                         ELSE tab[CHOOSE i \in S : \A j \in S : i <= j]
        find(tab) == first(tab, {i \in 1..Len(tab) :
                                     tab[i].type = dev_type /\
                                     tab[i].model = dev_model})
    IN find(zbc_opt_feat)

dev_feat(d) == zbc_get_dev_features(d.dev_type, d.dev_model)

zbc_mt_zoned(d) == d.dev_type >= ZBC_MT_HM_ZONED

zbc_mt_zd(d) == d.dev_type = ZBC_MT_ZONE_DOM

(***************************************************************************)
(* Emulated device configuration (struct zbc_dev_config), a scaled-down    *)
(* geometry: 512-byte LBAs, zones of 2 LBAs, realms of 3 zones, 2 realms.  *)
(***************************************************************************)
ZBC_CONF_DEFAULT_CONV_NUM == -1

ZBC_CONF_WP_CHECK_NOT_SET == -1

zbc_dev_config ==
    [lba_size |-> 512, zone_size |-> 1024, conv_num |-> ZBC_CONF_DEFAULT_CONV_NUM,
     open_num |-> 2, realm_size |-> 3072, smr_gain |-> 150,
     max_activate |-> 0, wp_check |-> ZBC_CONF_WP_CHECK_NOT_SET,
     phys_capacity |-> 6144]

\* (dev_type, dev_model) pairs a configuration string or MUTATE can name.
DevProfiles ==
    { <<ZBC_MT_HM_ZONED, ZBC_MO_SMR_NO_CMR>>,
      <<ZBC_MT_HA_ZONED, ZBC_MO_SMR_NO_CMR>>,
      <<ZBC_MT_ZONE_DOM, ZBC_MO_ZD_1_CMR_BOT>>,
      <<ZBC_MT_ZONE_DOM, ZBC_MO_ZD_SOBR_NO_CMR>>,
      <<ZBC_MT_ZONE_DOM, ZBC_MO_ZD_SOBR_EMPTY>> }

(***************************************************************************)
(* Geometry helpers                                                        *)
(***************************************************************************)
\* A NULL zone / realm pointer and the -1 "no domain" / "no realm" result.
NULL == -1

\* sizeof(struct zbc_meta), sizeof(struct zbc_zone_realm),
\* sizeof(struct zbc_zone) and the page size used by zbc_meta_size().
zbc_meta_size(nr_realms, nr_zones) ==
    LET pg_size == 4096 - 1
        meta_size == 4480 + nr_realms * 72 + nr_zones * 72
        x == meta_size + pg_size - 1
    IN \* x & ~(pg_size - 1): clears bits 1..11, keeps bit 0 and bits >= 12
       (x \div 4096) * 4096 + (x % 2)

zbc_get_zone(d, lba, lowest) ==
    LET zno == lba \div d.zone_size IN
    IF zno >= d.nr_zones THEN NULL
    ELSE IF lowest /\ lba # d.zones[zno].start THEN NULL
    ELSE zno

\* (int) of the double expression: truncation toward zero, then clamping.
\* old_max is above 1 for every geometry formatted here.
zbc_rescale_in_range(val, old_max, new_max) ==
    LET p == (new_max - 1) * (val - old_max) + new_max * (old_max - 1)
        q == old_max - 1
        res == IF p >= 0 THEN p \div q ELSE 0 - ((0 - p) \div q)
    IN IF res <= 0 THEN 1 ELSE IF res > new_max THEN new_max ELSE res

zbc_init_nr_zone_maps(d) ==
    [d EXCEPT
        !.cmr_nr_zones_to_smr =
            [i \in 1..d.nr_cmr_realm_zones |->
                zbc_rescale_in_range(i, d.nr_cmr_realm_zones,
                                     d.nr_smr_realm_zones)],
        !.smr_nr_zones_to_cmr =
            [i \in 1..d.nr_smr_realm_zones |->
                zbc_rescale_in_range(i, d.nr_smr_realm_zones,
                                     d.nr_cmr_realm_zones)]]

zbc_calc_total_zd_capacity(d) ==
    LET lsmr == d.nr_seq_zones * d.zone_size
        lcmr == d.nr_conv_zones * d.zone_size
        B(b) == IF b THEN 1 ELSE 0
        total(ncmr, nsmr, gapz) ==
            zbc_init_nr_zone_maps(
              [d EXCEPT !.logical_smr_capacity = lsmr,
                        !.logical_cmr_capacity = lcmr,
                        !.logical_capacity =
                            ncmr * lcmr + nsmr * lsmr + gapz * d.zone_size,
                        !.nr_zones = ncmr * d.nr_conv_zones
                                         + nsmr * d.nr_seq_zones + gapz])
        count(feat) ==
            total(B(feat.actv_of_conv) + B(feat.actv_of_sobr),
                  B(feat.actv_of_seq_req) + B(feat.actv_of_seq_pref),
                  (B(feat.actv_of_conv) + B(feat.actv_of_sobr)
                     + B(feat.actv_of_seq_req) + B(feat.actv_of_seq_pref) - 1)
                      * feat.domain_gap)
    IN count(dev_feat(d))

zbc_set_initial_wp(d, idx) ==
    LET zone == d.zones[idx] IN
    IF zone.cond = ZBC_ZONE_COND_EMPTY
    THEN zbc_add_zone_tail([d EXCEPT !.zones[idx].wp = zone.start],
                           "seq_active_zones", idx)
    ELSE IF zone.cond = ZBC_ZONE_COND_FULL
    THEN zbc_add_zone_tail(
             [d EXCEPT !.zones[idx].wp =
                 IF zbc_zone_seq(zone) THEN zone.start + zone.len
                 ELSE ZBC_NO_WP],
             "seq_active_zones", idx)
    ELSE IF zone.cond \in {ZBC_ZONE_COND_INACTIVE, ZBC_ZONE_COND_NOT_WP,
                           ZBC_ZONE_COND_READONLY, ZBC_ZONE_COND_OFFLINE}
    THEN [d EXCEPT !.zones[idx].wp = ZBC_NO_WP]
    ELSE d

zbc_smr_domain(dom) == dom.flags = 1

zbc_realm_seq(r) ==
    r.type \in {ZBC_ZONE_TYPE_SEQWRITE_REQ, ZBC_ZONE_TYPE_SEQWRITE_PREF}

zbc_realm_start(r, rt) == r.ri[rt].start_lba

zbc_realm_length(r, rt) == r.ri[rt].length

zbc_realm_start_zone(r, rt) == r.ri[rt].start_zone

zbc_can_actv_realm_as(r, rt) == rt \in r.flags

(***************************************************************************)
(* Formatting                                                              *)
(***************************************************************************)
RECURSIVE zbc_init_zones_zd_loop(_, _, _, _, _)
zbc_init_zones_zd_loop(d, idx, n, type, cond) ==
    IF n = 0 THEN d
    ELSE LET d1 == [d EXCEPT !.zones[idx].type = type,
                             !.zones[idx].cond = cond,
                             !.nr_empty_zones =
                                 IF cond = ZBC_ZONE_COND_EMPTY
                                 THEN @ + 1 ELSE @]
         IN zbc_init_zones_zd_loop(zbc_set_initial_wp(d1, idx),
                                   idx + 1, n - 1, type, cond)

\* Zones of realm ri in domain di; the result has .ok FALSE when the
\* realm's start zone cannot be found.
zbc_init_zones_zd(d, ri, di) ==
    LET dom == d.domains[di]
        r == d.realms[ri]
        cond(feat) ==
            IF zbc_smr_domain(dom)
            THEN IF dom.type = feat.initial_smr_type /\ zbc_realm_seq(r)
                 THEN feat.initial_smr_cond ELSE ZBC_ZONE_COND_INACTIVE
            ELSE IF dom.type = feat.initial_cmr_type /\ ~zbc_realm_seq(r)
                 THEN feat.initial_cmr_cond ELSE ZBC_ZONE_COND_INACTIVE
        init(zone) ==
            IF zone = NULL THEN [d EXCEPT !.ok = FALSE]
            ELSE zbc_init_zones_zd_loop(
                     [d EXCEPT !.realms[ri].ri[dom.type].start_zone = zone],
                     zone, r.ri[dom.type].length, dom.type,
                     cond(dev_feat(d)))
    IN init(zbc_get_zone(d, r.ri[dom.type].start_lba, FALSE))

zbc_init_domain(d, di, type, start_lba, smr) ==
    LET e == start_lba + (IF smr THEN d.logical_smr_capacity
                          ELSE d.logical_cmr_capacity)
    IN [d EXCEPT !.domains[di] =
           [start_lba |-> start_lba, end_lba |-> e - 1,
            nr_zones |-> (e - start_lba) \div d.zone_size,
            type |-> type, flags |-> IF smr THEN 1 ELSE 0]]

\* The domain types a profile provides, in the order the domains are laid out.
DomainOrder(feat) ==
    LET sobr == IF feat.actv_of_sobr
                THEN << <<ZBC_ZONE_TYPE_SEQ_OR_BEF_REQ, FALSE>> >> ELSE << >>
        conv == IF feat.actv_of_conv
                THEN << <<ZBC_ZONE_TYPE_CONVENTIONAL, FALSE>> >> ELSE << >>
        swr == IF feat.actv_of_seq_req
               THEN << <<ZBC_ZONE_TYPE_SEQWRITE_REQ, TRUE>> >> ELSE << >>
        swp == IF feat.actv_of_seq_pref
               THEN << <<ZBC_ZONE_TYPE_SEQWRITE_PREF, TRUE>> >> ELSE << >>
    IN sobr \o conv \o swr \o swp

RECURSIVE zbc_init_zone_domains_loop(_, _, _, _)
zbc_init_zone_domains_loop(d, order, di, start_lba) ==
    IF di >= Len(order) THEN d
    ELSE LET next(d1) ==
                 zbc_init_zone_domains_loop(
                     d1, order, di + 1,
                     d1.domains[di].end_lba + 1 +
                         dev_feat(d).domain_gap * d.zone_size)
         IN next(zbc_init_domain(d, di, order[di + 1][1], start_lba,
                                 order[di + 1][2]))

zbc_init_zone_domains(d) ==
    LET init(order) ==
            zbc_init_zone_domains_loop(
                [d EXCEPT
                    !.domains = [i \in 0..(Len(order) - 1) |->
                                    [start_lba |-> 0, end_lba |-> 0,
                                     nr_zones |-> 0, type |-> 0,
                                     flags |-> 0]],
                    !.nr_domains = Len(order),
                    !.zones = [i \in 0..(d.nr_zones - 1) |->
                                  [start |-> i * d.zone_size,
                                   len |-> d.zone_size,
                                   type |-> ZBC_ZONE_TYPE_GAP,
                                   cond |-> ZBC_ZONE_COND_NOT_WP,
                                   prev |-> 0, next |-> 0, wp |-> ZBC_NO_WP,
                                   non_seq |-> 0, reset |-> 0]]],
                order, 0, 0)
    IN init(DomainOrder(dev_feat(d)))

RECURSIVE zbc_trim_gap_zones_count(_, _)
zbc_trim_gap_zones_count(d, i) ==
    IF i = 0 \/ ~zbc_zone_gap(d.zones[i - 1]) THEN 0
    ELSE 1 + zbc_trim_gap_zones_count(d, i - 1)

zbc_trim_gap_zones(d) ==
    LET trim(to_trim) ==
            [d EXCEPT !.nr_zones = @ - to_trim,
                      !.logical_capacity = @ - to_trim * d.zone_size]
    IN trim(zbc_trim_gap_zones_count(d, d.nr_zones))

RECURSIVE zbc_init_zone_realms_loop(_, _, _, _, _)
zbc_init_zone_realms_loop(d, j, i, k, cob) ==
    LET cmr_only_tcnt == d.nr_realms - dev_feat(d).nr_top_cmr - 1
    IN
    IF ~d.ok \/ j >= d.nr_domains THEN d
    ELSE IF i >= d.nr_realms
    THEN zbc_init_zone_realms_loop(d, j + 1, 0, 0, dev_feat(d).nr_bot_cmr)
    ELSE LET dom == d.domains[j]
             smr == zbc_smr_domain(dom)
             add_type == IF smr THEN cob = 0 /\ i <= cmr_only_tcnt ELSE TRUE
             cob1 == IF smr /\ cob > 0 THEN cob - 1 ELSE cob
             rl == IF smr THEN d.nr_smr_realm_zones
                   ELSE d.nr_cmr_realm_zones
         IN IF add_type
            THEN zbc_init_zone_realms_loop(
                     zbc_init_zones_zd(
                         [d EXCEPT
                             !.realms[i].ri[dom.type].start_lba =
                                 dom.start_lba + k * rl * d.zone_size,
                             !.realms[i].ri[dom.type].length = rl,
                             !.realms[i].flags = @ \cup {dom.type}],
                         i, j),
                     j, i + 1, k + 1, cob1)
            ELSE zbc_init_zone_realms_loop(
                     [d EXCEPT !.domains[j].end_lba = @ - rl * d.zone_size,
                               !.domains[j].nr_zones = @ - rl],
                     j, i + 1, k, cob1)

zbc_init_zone_realms(d) ==
    LET init(feat) ==
            zbc_init_zone_realms_loop(
                [d EXCEPT !.realms =
                    [i \in 0..(d.nr_realms - 1) |->
                        [number |-> i,
                         type |-> IF zbc_smr_domain(d.domains[0])
                                  THEN feat.initial_smr_type
                                  ELSE feat.initial_cmr_type,
                         flags |-> {},
                         ri |-> [t \in 1..4 |->
                                    [start_lba |-> 0, length |-> 0,
                                     start_zone |-> 0]]]]],
                0, 0, 0, feat.nr_bot_cmr)
        trim(d1) == IF ~d1.ok THEN d1 ELSE zbc_trim_gap_zones(d1)
    IN trim(init(dev_feat(d)))

zbc_init_domain_mapping(d) ==
    [d EXCEPT !.zone_type_to_dom =
        [t \in 1..4 |->
            LET S == {j \in 0..(d.nr_domains - 1) : d.domains[j].type = t}
            IN IF S = {} THEN -1 ELSE CHOOSE j \in S : \A k \in S : j <= k]]

zbc_write_meta_common(d) ==
    [d EXCEPT !.meta.magic = TRUE,
              !.meta.cfg_str = d.cfg,
              !.meta.dev_type = d.dev_type,
              !.meta.dev_model = d.dev_model,
              !.meta.bs_size = d.bs_size,
              !.meta.phys_capacity = d.phys_capacity,
              !.meta.lba_size = d.lba_size]

\* The zeroed header written by memset() before the metadata is filled in.
zbc_meta ==
    [magic |-> FALSE, cfg_str |-> [dev_type |-> 0], dev_type |-> 0,
     dev_model |-> 0, bs_size |-> 0,
     phys_capacity |-> 0, lba_size |-> 0, realm_size |-> 0, nr_realms |-> 0,
     smr_gain |-> 0, max_activate |-> 0, wp_check |-> 0,
     realms_feat_set |-> FALSE, nr_actv_zones |-> 0, zone_size |-> 0,
     nr_zones |-> 0, nr_conv_zones |-> 0, nr_open_zones |-> 0]

zbc_init_lists(d) ==
    [d EXCEPT !.imp_open_zones = zbc_init_zone_list,
              !.exp_open_zones = zbc_init_zone_list,
              !.closed_zones = zbc_init_zone_list,
              !.seq_active_zones = zbc_init_zone_list]

zbc_format_meta_zd(d) ==
    LET cfg == d.cfg
        lba_size == cfg.lba_size
        zone_size == cfg.zone_size \div lba_size
        realm_size == cfg.realm_size \div lba_size
        phys0 == cfg.phys_capacity \div lba_size
        nr_realms == (phys0 + realm_size - 1) \div realm_size
        phys == nr_realms * realm_size
        lcmr == (phys * 100) \div cfg.smr_gain
        nr_cmr_realm_zones ==
            ((lcmr + zone_size - 1) \div zone_size) \div nr_realms
        nr_smr_realm_zones ==
            ((phys + zone_size - 1) \div zone_size) \div nr_realms
        nr_seq_zones == nr_smr_realm_zones * nr_realms
        d1 == zbc_calc_total_zd_capacity(
                [d EXCEPT !.lba_size = lba_size, !.phys_capacity = phys,
                          !.zone_size = zone_size, !.realm_size = realm_size,
                          !.smr_gain = cfg.smr_gain, !.nr_realms = nr_realms,
                          !.nr_conv_zones = nr_cmr_realm_zones * nr_realms,
                          !.nr_seq_zones = nr_seq_zones,
                          !.nr_cmr_realm_zones = nr_cmr_realm_zones,
                          !.nr_smr_realm_zones = nr_smr_realm_zones,
                          !.nr_actv_zones = nr_cmr_realm_zones])
        nr_open == IF cfg.open_num >= nr_seq_zones \div 2
                   THEN Max(nr_seq_zones \div 2, 1) ELSE cfg.open_num
        set_conf(e) ==
            [e EXCEPT
               !.nr_open_zones = nr_open,
               !.nr_imp_open = 0, !.nr_exp_open = 0,
               !.max_activate = cfg.max_activate,
               !.realms_feat_set = cfg.realms_feat_set,
               !.wp_check = IF cfg.wp_check # ZBC_CONF_WP_CHECK_NOT_SET
                            THEN cfg.wp_check
                            ELSE dev_feat(d).initial_wp_check,
               !.meta_size = zbc_meta_size(nr_realms, e.nr_zones),
               !.bs_size = zbc_meta_size(nr_realms, e.nr_zones)
                               + phys * lba_size,
               !.st_size = zbc_meta_size(nr_realms, e.nr_zones)
                               + phys * lba_size,
               !.meta = zbc_meta]
        set_meta(e) ==
            [e EXCEPT
               !.meta.zone_size = e.zone_size,
               !.meta.nr_zones = e.nr_zones,
               !.meta.nr_conv_zones = e.nr_conv_zones,
               !.meta.nr_open_zones = e.nr_open_zones,
               !.meta.wp_check = e.wp_check,
               !.meta.realms_feat_set = e.realms_feat_set,
               !.meta.realm_size = e.realm_size,
               !.meta.nr_realms = e.nr_realms,
               !.meta.smr_gain = e.smr_gain,
               !.meta.max_activate = e.max_activate,
               !.meta.nr_actv_zones = e.nr_actv_zones]
        finish(e) ==
            IF ~e.ok THEN e
            ELSE zbc_init_domain_mapping(
                     [e EXCEPT !.stats.min_empty_zones = e.nr_empty_zones])
    IN IF realm_size > phys0 \div 2 \/ realm_size < zone_size * 2
          \/ realm_size % zone_size # 0
       THEN [d EXCEPT !.ok = FALSE]
       ELSE finish(zbc_init_zone_realms(zbc_init_lists(set_meta(
                zbc_init_zone_domains(zbc_write_meta_common(
                    set_conf(d1)))))))

zbc_init_zones_zoned(d) ==
    LET zone_type == IF d.dev_type = ZBC_MT_HA_ZONED
                     THEN ZBC_ZONE_TYPE_SEQWRITE_PREF
                     ELSE ZBC_ZONE_TYPE_SEQWRITE_REQ
        nr_convz == d.nr_conv_zones
        d0 == [d EXCEPT !.zones =
                 [i \in 0..(d.nr_zones - 1) |->
                    [start |-> i * d.zone_size,
                     len |-> IF i * d.zone_size + d.zone_size
                                  > d.logical_capacity
                             THEN d.logical_capacity - i * d.zone_size
                             ELSE d.zone_size,
                     type |-> IF i < nr_convz
                              THEN ZBC_ZONE_TYPE_CONVENTIONAL ELSE zone_type,
                     cond |-> IF i < nr_convz
                              THEN ZBC_ZONE_COND_NOT_WP
                              ELSE ZBC_ZONE_COND_EMPTY,
                     prev |-> 0, next |-> 0, wp |-> 0,
                     non_seq |-> 0, reset |-> 0]],
                 !.nr_empty_zones = @ + (d.nr_zones - nr_convz)]
        RECURSIVE loop(_, _)
        loop(e, i) == IF i >= e.nr_zones THEN e
                      ELSE loop(zbc_set_initial_wp(e, i), i + 1)
        finish(e) == [e EXCEPT !.stats.min_empty_zones = e.nr_empty_zones]
    IN finish(loop(d0, 0))

zbc_format_meta_zoned(d) ==
    LET cfg == d.cfg
        lba_size == cfg.lba_size
        phys == cfg.phys_capacity \div lba_size
        zone_size == cfg.zone_size \div lba_size
        nr_zones == (phys + zone_size - 1) \div zone_size
        nr_conv == IF cfg.mutating THEN 0
                   ELSE IF cfg.conv_num = ZBC_CONF_DEFAULT_CONV_NUM
                   THEN Max(nr_zones \div 100, 1)
                   ELSE cfg.conv_num
        nr_seq == nr_zones - nr_conv
        nr_open == IF cfg.open_num >= nr_seq \div 2
                   THEN Max(nr_seq \div 2, 1) ELSE cfg.open_num
        meta_size == zbc_meta_size(0, nr_zones)
        d1 == [d EXCEPT
                 !.lba_size = lba_size, !.phys_capacity = phys,
                 !.zone_size = zone_size, !.nr_zones = nr_zones,
                 !.nr_conv_zones = nr_conv,
                 !.logical_capacity = nr_zones * zone_size,
                 !.nr_open_zones = nr_open,
                 !.nr_imp_open = 0, !.nr_exp_open = 0,
                 !.wp_check = IF cfg.wp_check # ZBC_CONF_WP_CHECK_NOT_SET
                              THEN cfg.wp_check
                              ELSE dev_feat(d).initial_wp_check,
                 !.meta_size = meta_size,
                 !.bs_size = meta_size + phys * lba_size,
                 !.st_size = meta_size + phys * lba_size,
                 !.meta = zbc_meta]
        set_meta(e) ==
            [e EXCEPT
               !.meta.zone_size = e.zone_size,
               !.meta.nr_zones = e.nr_zones,
               !.meta.nr_conv_zones = e.nr_conv_zones,
               !.meta.nr_open_zones = e.nr_open_zones,
               !.meta.wp_check = e.wp_check,
               !.realms = << >>]
    IN IF ~cfg.mutating /\ cfg.conv_num # ZBC_CONF_DEFAULT_CONV_NUM
          /\ nr_conv >= nr_zones
       THEN [d EXCEPT !.ok = FALSE]
       ELSE zbc_init_zones_zoned(zbc_init_lists(set_meta(
                zbc_write_meta_common(d1))))

\* Format metadata for a legacy non-zoned drive: no zones, no realms, only
\* the common header.
zbc_format_meta_nz(d) ==
    LET cfg == d.cfg
        lba_size == cfg.lba_size
        phys == cfg.phys_capacity \div lba_size
        meta_size == zbc_meta_size(0, 0)
        d1 == [d EXCEPT
                 !.lba_size = lba_size, !.phys_capacity = phys,
                 !.logical_capacity = phys,
                 !.meta_size = meta_size,
                 !.bs_size = meta_size + phys * lba_size,
                 !.st_size = meta_size + phys * lba_size,
                 !.meta = zbc_meta]
    IN zbc_write_meta_common(d1)

zbc_format_meta(d) ==
    LET d1 == IF ~d.cfg.mutating
              THEN [d EXCEPT !.dev_type = d.cfg.dev_type,
                             !.dev_model = d.cfg.dev_model]
              ELSE d
        d2 == [d1 EXCEPT !.nr_empty_zones = 0, !.ok = TRUE]
    IN IF dev_feat(d1).type = 0 THEN [d1 EXCEPT !.ok = FALSE]
       ELSE IF zbc_mt_zd(d2) THEN zbc_format_meta_zd(d2)
       ELSE IF zbc_mt_zoned(d2) THEN zbc_format_meta_zoned(d2)
       ELSE zbc_format_meta_nz(d2)

(***************************************************************************)
(* Zone state machine                                                      *)
(***************************************************************************)
TCMU_STS_OK == <<"NO_SENSE", "TCMU_STS_OK">>

zbc_set_sense(key, asc) == <<key, asc>>

zbc_on_cond_change(d, idx, cond) ==
    IF zbc_zone_empty(d.zones[idx]) /\ cond # ZBC_ZONE_COND_EMPTY
    THEN [d EXCEPT !.nr_empty_zones = @ - 1,
                   !.stats.min_empty_zones =
                       Min(@, d.nr_empty_zones - 1)]
    ELSE d

\* zbc_ozr_check() that always finds resources.
zbc_ozr_check_none(d, add_val) == TRUE

zbc_ozr_check(d, add_val) == ~(d.nr_exp_open + add_val > d.nr_open_zones)

zbc_lba_out_of_range(d, lba, nr_lbas) ==
    lba >= d.logical_capacity \/ lba + nr_lbas > d.logical_capacity

zbc_get_zone_domain(d, zone) ==
    IF zbc_zone_gap(zone) THEN -1
    ELSE LET S == {i \in 0..(d.nr_domains - 1) :
                      zone.start <= d.domains[i].end_lba}
         IN IF S = {} THEN -1 ELSE CHOOSE i \in S : \A j \in S : i <= j

\* The values zbc_get_zone_domain() can produce for "zone + count - 1" when
\* that descriptor lies past the end of the mapped zone array.
OobDomain(d, lba, count) ==
    LET zno == lba \div d.zone_size IN
    IF count > 1 /\ zno + count - 1 \notin DOMAIN d.zones /\ d.nr_domains > 0
    THEN (0 - 1)..(d.nr_domains - 1)
    ELSE {-1}

RECURSIVE zbc_check_range_types(_, _, _, _)
zbc_check_range_types(d, z, last, count) ==
    IF count = 0 \/ z > last THEN TCMU_STS_OK
    ELSE IF zbc_zone_gap(d.zones[z])
    THEN zbc_set_sense("ILLEGAL_REQUEST", "ASC_ATTEMPT_TO_ACCESS_GAP_ZONE")
    ELSE IF zbc_zone_conv(d.zones[z])
    THEN zbc_set_sense("ILLEGAL_REQUEST", "ASC_INVALID_FIELD_IN_CDB")
    ELSE zbc_check_range_types(d, z + 1, last, count - 1)

\* Result: .ret is the status, .zone and .last the first and last zone index.
zbc_get_check_zone(d, lba, count, oob) ==
    LET zone == zbc_get_zone(d, lba, TRUE)
        fail(s) == [ret |-> s, zone |-> NULL, last |-> NULL]
    IN
    IF zbc_lba_out_of_range(d, lba, d.zone_size)
    THEN fail(zbc_set_sense("ILLEGAL_REQUEST", "ASC_LBA_OUT_OF_RANGE"))
    ELSE IF zone = NULL
    THEN fail(zbc_set_sense("ILLEGAL_REQUEST", "ASC_INVALID_FIELD_IN_CDB"))
    ELSE IF zbc_zone_gap(d.zones[zone])
    THEN fail(zbc_set_sense("ILLEGAL_REQUEST",
                            "ASC_ATTEMPT_TO_ACCESS_GAP_ZONE"))
    ELSE IF zbc_zone_conv(d.zones[zone])
    THEN fail(zbc_set_sense("ILLEGAL_REQUEST", "ASC_INVALID_FIELD_IN_CDB"))
    ELSE IF count <= 1
    THEN IF zbc_zone_inactive(d.zones[zone])
         THEN fail(zbc_set_sense("DATA_PROTECT", "ASC_ZONE_IS_INACTIVE"))
         ELSE IF zbc_zone_offline(d.zones[zone])
         THEN fail(zbc_set_sense("DATA_PROTECT", "ASC_ZONE_IS_OFFLINE"))
         ELSE IF zbc_zone_rdonly(d.zones[zone])
         THEN fail(zbc_set_sense("DATA_PROTECT", "ASC_ZONE_IS_READ_ONLY"))
         ELSE [ret |-> TCMU_STS_OK, zone |-> zone, last |-> zone + count - 1]
    ELSE LET l == zone + count - 1
             ldom == IF l \in DOMAIN d.zones
                     THEN zbc_get_zone_domain(d, d.zones[l]) ELSE oob
             last == d.nr_zones - 1
             chk == zbc_check_range_types(d, zone, last, count)
         IN IF zbc_get_zone_domain(d, d.zones[zone]) # ldom
            THEN fail(zbc_set_sense("ILLEGAL_REQUEST",
                                    "ASC_INVALID_FIELD_IN_CDB"))
            ELSE IF chk # TCMU_STS_OK THEN fail(chk)
            ELSE [ret |-> TCMU_STS_OK, zone |-> zone, last |-> last]

\* __zbc_close_zone() without the early return for SOBR zones.
__zbc_close_zone_sobr(d, idx) ==
    LET zone == d.zones[idx] IN
    IF zbc_zone_conv(zone) \/ ~zbc_zone_is_open(zone) THEN d
    ELSE LET d1 == IF ~zbc_zone_seq_req(zone) THEN d
                   ELSE IF zbc_zone_imp_open(zone)
                   THEN [d EXCEPT !.nr_imp_open = @ - 1]
                   ELSE [d EXCEPT !.nr_exp_open = @ - 1]
             relink(d2) ==
                 IF zone.wp = zone.start
                 THEN [zbc_add_zone_tail(
                           [d2 EXCEPT !.zones[idx].cond =
                                          ZBC_ZONE_COND_EMPTY],
                           "seq_active_zones", idx)
                          EXCEPT !.nr_empty_zones = @ + 1]
                 ELSE zbc_add_zone_head(
                          [d2 EXCEPT !.zones[idx].cond =
                                         ZBC_ZONE_COND_CLOSED],
                          "closed_zones", idx)
         IN relink(zbc_unlink_zone(d1, idx))

__zbc_close_zone(d, idx) ==
    LET zone == d.zones[idx] IN
    IF zbc_zone_conv(zone) \/ ~zbc_zone_is_open(zone) THEN d
    ELSE IF zbc_zone_sobr(zone) THEN d
    ELSE LET d1 == IF ~zbc_zone_seq_req(zone) THEN d
                   ELSE IF zbc_zone_imp_open(zone)
                   THEN [d EXCEPT !.nr_imp_open = @ - 1]
                   ELSE [d EXCEPT !.nr_exp_open = @ - 1]
             relink(d2) ==
                 IF zone.wp = zone.start
                 THEN [zbc_add_zone_tail(
                           [d2 EXCEPT !.zones[idx].cond =
                                          ZBC_ZONE_COND_EMPTY],
                           "seq_active_zones", idx)
                          EXCEPT !.nr_empty_zones = @ + 1]
                 ELSE zbc_add_zone_head(
                          [d2 EXCEPT !.zones[idx].cond =
                                         ZBC_ZONE_COND_CLOSED],
                          "closed_zones", idx)
         IN relink(zbc_unlink_zone(d1, idx))

RECURSIVE __zbc_close_imp_open_zone_loop(_, _)
__zbc_close_imp_open_zone_loop(d, idx) ==
    IF idx = ZBC_LIST_NIL THEN d
    ELSE LET closed(d1) ==
                 IF d1.nr_imp_open + d1.nr_exp_open < d1.nr_open_zones
                 THEN d1
                 ELSE __zbc_close_imp_open_zone_loop(d1, d.zones[idx].next)
         IN closed(__zbc_close_zone(d, idx))

__zbc_close_imp_open_zone(d) ==
    __zbc_close_imp_open_zone_loop(d, d.imp_open_zones.head)

__zbc_open_zone(d, idx, explicit) ==
    LET zone == d.zones[idx] IN
    IF zbc_zone_conv(zone) \/ zbc_zone_inactive(zone)
       \/ zbc_zone_offline(zone) \/ zbc_zone_rdonly(zone) THEN d
    ELSE IF zbc_zone_exp_open(zone) \/ (~explicit /\ zbc_zone_imp_open(zone))
    THEN d
    ELSE LET swr == IF zbc_zone_seq_req(zone) THEN 1 ELSE 0
             set_cond(d2) ==
                 IF explicit
                 THEN [d2 EXCEPT !.zones[idx].cond = ZBC_ZONE_COND_EXP_OPEN,
                                 !.nr_exp_open = @ + swr]
                 ELSE [d2 EXCEPT !.zones[idx].cond = ZBC_ZONE_COND_IMP_OPEN,
                                 !.nr_imp_open = @ + swr]
             max_open(d3) ==
                 [d3 EXCEPT
                     !.stats.max_exp_open_seq_zones =
                         IF explicit THEN Max(@, d3.nr_exp_open) ELSE @,
                     !.stats.max_imp_open_seq_zones =
                         IF explicit THEN @ ELSE Max(@, d3.nr_imp_open),
                     !.stats.max_open_zones =
                         Max(@, d3.nr_exp_open + d3.nr_imp_open)]
         IN max_open(zbc_add_zone_tail(
                set_cond(zbc_on_cond_change(
                    zbc_unlink_zone(
                        IF zbc_zone_seq_req(zone)
                           /\ d.nr_imp_open + d.nr_exp_open
                                  >= d.nr_open_zones
                        THEN __zbc_close_imp_open_zone(d) ELSE d, idx),
                    idx, ZBC_ZONE_COND_EXP_OPEN)),
                IF explicit THEN "exp_open_zones" ELSE "imp_open_zones",
                idx))

\* __zbc_finish_zone() that moves the write pointer of the zone back to the
\* start of the zone.
__zbc_finish_zone_rewind(d, idx, empty) ==
    LET zone == d.zones[idx] IN
    IF zbc_zone_conv(zone) \/ zbc_zone_inactive(zone)
       \/ zbc_zone_offline(zone) \/ zbc_zone_rdonly(zone) THEN d
    ELSE IF zbc_zone_closed(zone) \/ zbc_zone_is_open(zone)
            \/ (empty /\ zbc_zone_empty(zone))
    THEN LET full(d2) == [d2 EXCEPT !.zones[idx].wp = zone.start,
                                    !.zones[idx].cond = ZBC_ZONE_COND_FULL]
             clear(d4) == [d4 EXCEPT !.zones[idx].non_seq = 0,
                                     !.zones[idx].reset = 0]
         IN clear(zbc_add_zone_tail(
                full(zbc_unlink_zone(
                    zbc_on_cond_change(
                        IF zbc_zone_is_open(zone)
                        THEN __zbc_close_zone(d, idx) ELSE d,
                        idx, ZBC_ZONE_COND_FULL), idx)),
                "seq_active_zones", idx))
    ELSE d

\* __zbc_finish_zone() that leaves the write pointer of the zone where it is.
__zbc_finish_zone_keep_wp(d, idx, empty) ==
    LET zone == d.zones[idx] IN
    IF zbc_zone_conv(zone) \/ zbc_zone_inactive(zone)
       \/ zbc_zone_offline(zone) \/ zbc_zone_rdonly(zone) THEN d
    ELSE IF zbc_zone_closed(zone) \/ zbc_zone_is_open(zone)
            \/ (empty /\ zbc_zone_empty(zone))
    THEN LET full(d2) == [d2 EXCEPT !.zones[idx].cond = ZBC_ZONE_COND_FULL]
             clear(d4) == [d4 EXCEPT !.zones[idx].non_seq = 0,
                                     !.zones[idx].reset = 0]
         IN clear(zbc_add_zone_tail(
                full(zbc_unlink_zone(
                    zbc_on_cond_change(
                        IF zbc_zone_is_open(zone)
                        THEN __zbc_close_zone(d, idx) ELSE d,
                        idx, ZBC_ZONE_COND_FULL), idx)),
                "seq_active_zones", idx))
    ELSE d

__zbc_finish_zone(d, idx, empty) ==
    LET zone == d.zones[idx] IN
    IF zbc_zone_conv(zone) \/ zbc_zone_inactive(zone)
       \/ zbc_zone_offline(zone) \/ zbc_zone_rdonly(zone) THEN d
    ELSE IF zbc_zone_closed(zone) \/ zbc_zone_is_open(zone)
            \/ (empty /\ zbc_zone_empty(zone))
    THEN LET full(d2) ==
                 [d2 EXCEPT
                    !.zones[idx].wp = IF zbc_zone_sobr(zone) THEN ZBC_NO_WP
                                      ELSE zone.start + zone.len,
                    !.zones[idx].cond = ZBC_ZONE_COND_FULL]
             clear(d4) == [d4 EXCEPT !.zones[idx].non_seq = 0,
                                     !.zones[idx].reset = 0]
         IN clear(zbc_add_zone_tail(
                full(zbc_unlink_zone(
                    zbc_on_cond_change(
                        IF zbc_zone_is_open(zone)
                        THEN __zbc_close_zone(d, idx) ELSE d,
                        idx, ZBC_ZONE_COND_FULL), idx)),
                "seq_active_zones", idx))
    ELSE d

\* __zbc_reset_wp() that leaves the write pointer of the zone where it is.
__zbc_reset_wp_keep_wp(d, idx) ==
    LET reset(d1) ==
            LET zone == d1.zones[idx] IN
            IF zbc_zone_inactive(zone) \/ zbc_zone_offline(zone)
               \/ zbc_zone_rdonly(zone)
            THEN [d1 EXCEPT !.zones[idx].wp = ZBC_NO_WP]
            ELSE IF zbc_zone_conv(zone)
            THEN [d1 EXCEPT !.zones[idx].cond = ZBC_ZONE_COND_NOT_WP,
                            !.zones[idx].wp = ZBC_NO_WP]
            ELSE IF ~zbc_zone_empty(zone)
            THEN [zbc_add_zone_head(
                      [zbc_unlink_zone(d1, idx) EXCEPT
                          !.zones[idx].cond = ZBC_ZONE_COND_EMPTY],
                      "seq_active_zones", idx)
                     EXCEPT !.nr_empty_zones = @ + 1]
            ELSE d1
        clear(d2) == [d2 EXCEPT !.zones[idx].non_seq = 0,
                                !.zones[idx].reset = 0]
    IN clear(reset(IF zbc_zone_is_open(d.zones[idx])
                   THEN __zbc_close_zone(d, idx) ELSE d))

\* __zbc_reset_wp() that resets a zone that is Empty already like any other.
__zbc_reset_wp_any(d, idx) ==
    LET reset(d1) ==
            LET zone == d1.zones[idx] IN
            IF zbc_zone_inactive(zone) \/ zbc_zone_offline(zone)
               \/ zbc_zone_rdonly(zone)
            THEN [d1 EXCEPT !.zones[idx].wp = ZBC_NO_WP]
            ELSE IF zbc_zone_conv(zone)
            THEN [d1 EXCEPT !.zones[idx].cond = ZBC_ZONE_COND_NOT_WP,
                            !.zones[idx].wp = ZBC_NO_WP]
            ELSE [zbc_add_zone_head(
                      [zbc_unlink_zone(d1, idx) EXCEPT
                          !.zones[idx].cond = ZBC_ZONE_COND_EMPTY,
                          !.zones[idx].wp = zone.start],
                      "seq_active_zones", idx)
                     EXCEPT !.nr_empty_zones = @ + 1]
        clear(d2) == [d2 EXCEPT !.zones[idx].non_seq = 0,
                                !.zones[idx].reset = 0]
    IN clear(reset(IF zbc_zone_is_open(d.zones[idx])
                   THEN __zbc_close_zone(d, idx) ELSE d))

__zbc_reset_wp(d, idx) ==
    LET reset(d1) ==
            LET zone == d1.zones[idx] IN
            IF zbc_zone_inactive(zone) \/ zbc_zone_offline(zone)
               \/ zbc_zone_rdonly(zone)
            THEN [d1 EXCEPT !.zones[idx].wp = ZBC_NO_WP]
            ELSE IF zbc_zone_conv(zone)
            THEN [d1 EXCEPT !.zones[idx].cond = ZBC_ZONE_COND_NOT_WP,
                            !.zones[idx].wp = ZBC_NO_WP]
            ELSE IF ~zbc_zone_empty(zone)
            THEN [zbc_add_zone_head(
                      [zbc_unlink_zone(d1, idx) EXCEPT
                          !.zones[idx].cond = ZBC_ZONE_COND_EMPTY,
                          !.zones[idx].wp = zone.start],
                      "seq_active_zones", idx)
                     EXCEPT !.nr_empty_zones = @ + 1]
            ELSE d1
        clear(d2) == [d2 EXCEPT !.zones[idx].non_seq = 0,
                                !.zones[idx].reset = 0]
    IN clear(reset(IF zbc_zone_is_open(d.zones[idx])
                   THEN __zbc_close_zone(d, idx) ELSE d))

__zbc_sequentialize_zone(d, idx) == [d EXCEPT !.zones[idx].non_seq = 0]

\* The zones a range loop "for (z = zone, c = count; c && z <= last; ..)" visits
zbc_range(zone, last, count) == {z \in zone..last : z - zone < count}

\* for (zone = zbc_first_zone(..); zone != NULL; zone = next), one list
\* of lists after the other.
RECURSIVE zbc_close_zone_lists(_, _, _)
zbc_close_zone_lists(e, lists, idx) ==
    IF idx # ZBC_LIST_NIL
    THEN zbc_close_zone_lists(__zbc_close_zone(e, idx), lists,
                              e.zones[idx].next)
    ELSE IF lists = << >> THEN e
    ELSE zbc_close_zone_lists(e, Tail(lists), e[Head(lists)].head)

\* for (; count && zone <= last; zone++, count--)
RECURSIVE zbc_close_zone_range(_, _, _, _)
zbc_close_zone_range(e, z, last, c) ==
    IF c = 0 \/ z > last THEN e
    ELSE zbc_close_zone_range(__zbc_close_zone(e, z), z + 1, last, c - 1)

zbc_close_zone(d, lba, count, all, oob) ==
    LET illreq == [d |-> d, ret |-> zbc_set_sense("ILLEGAL_REQUEST",
                                                  "ASC_INVALID_FIELD_IN_CDB")]
        close(g) ==
            IF g.ret # TCMU_STS_OK THEN [d |-> d, ret |-> g.ret]
            ELSE IF \E z \in zbc_range(g.zone, g.last, count) :
                        zbc_zone_sobr(d.zones[z])
            THEN illreq
            ELSE [d |-> zbc_close_zone_range(d, g.zone, g.last, count),
                  ret |-> TCMU_STS_OK]
    IN
    IF all
    THEN IF count # 0 THEN illreq
         ELSE [d |-> zbc_close_zone_lists(
                         d, <<"imp_open_zones", "exp_open_zones">>,
                         ZBC_LIST_NIL),
               ret |-> TCMU_STS_OK]
    ELSE close(zbc_get_check_zone(d, lba, count, oob))

RECURSIVE zbc_count_closed_swr(_, _)
zbc_count_closed_swr(d, idx) ==
    IF idx = ZBC_LIST_NIL THEN 0
    ELSE (IF zbc_zone_seq_req(d.zones[idx]) THEN 1 ELSE 0)
         + zbc_count_closed_swr(d, d.zones[idx].next)

\* Pre-check of an OPEN ZONE range: the first error met, or TCMU_STS_OK.
RECURSIVE zbc_open_zone_check(_, _, _, _, _)
zbc_open_zone_check(d, z, last, c, nr_open) ==
    IF c = 0 \/ z > last THEN TCMU_STS_OK
    ELSE IF zbc_zone_sobr(d.zones[z])
    THEN zbc_set_sense("ILLEGAL_REQUEST", "ASC_INVALID_FIELD_IN_CDB")
    ELSE IF zbc_zone_exp_open(d.zones[z]) \/ zbc_zone_full(d.zones[z])
    THEN zbc_open_zone_check(d, z + 1, last, c - 1, nr_open)
    ELSE IF zbc_zone_seq_req(d.zones[z])
    THEN IF ~zbc_ozr_check(d, nr_open + 1)
         THEN zbc_set_sense("DATA_PROTECT", "ASC_INSUFFICIENT_ZONE_RESOURCES")
         ELSE zbc_open_zone_check(d, z + 1, last, c - 1, nr_open + 1)
    ELSE zbc_open_zone_check(d, z + 1, last, c - 1, nr_open)

RECURSIVE zbc_open_zone_list(_, _)
zbc_open_zone_list(e, idx) ==
    IF idx = ZBC_LIST_NIL THEN e
    ELSE zbc_open_zone_list(__zbc_open_zone(e, idx, TRUE), e.zones[idx].next)

\* for (; count && zone <= last; zone++, count--): an implicitly open zone
\* is closed before it is opened explicitly.
RECURSIVE zbc_open_zone_range(_, _, _, _)
zbc_open_zone_range(e, z, last, c) ==
    IF c = 0 \/ z > last THEN e
    ELSE zbc_open_zone_range(
             IF zbc_zone_exp_open(e.zones[z]) \/ zbc_zone_full(e.zones[z])
             THEN e
             ELSE __zbc_open_zone(IF zbc_zone_imp_open(e.zones[z])
                                  THEN __zbc_close_zone(e, z) ELSE e,
                                  z, TRUE),
             z + 1, last, c - 1)

\* OPEN ZONE of the zones of a range; g is the result of
\* zbc_get_check_zone().
zbc_open_zone_zones(d, count, g) ==
    LET failed == [d EXCEPT !.stats.failed_exp_opens = @ + 1]
        insuff == zbc_set_sense("DATA_PROTECT",
                                "ASC_INSUFFICIENT_ZONE_RESOURCES")
        checked(chk, opened) ==
            IF g.ret # TCMU_STS_OK THEN [d |-> failed, ret |-> g.ret]
            ELSE IF chk = insuff THEN [d |-> failed, ret |-> chk]
            ELSE IF chk # TCMU_STS_OK THEN [d |-> d, ret |-> chk]
            ELSE [d |-> opened, ret |-> TCMU_STS_OK]
    IN checked(zbc_open_zone_check(d, g.zone, g.last, count, 0),
               zbc_open_zone_range(d, g.zone, g.last, count))

zbc_open_zone(d, lba, count, all, oob) ==
    LET failed == [d EXCEPT !.stats.failed_exp_opens = @ + 1]
        insuff == zbc_set_sense("DATA_PROTECT",
                                "ASC_INSUFFICIENT_ZONE_RESOURCES")
    IN
    IF all
    THEN IF count # 0
         THEN [d |-> d, ret |-> zbc_set_sense("ILLEGAL_REQUEST",
                                              "ASC_INVALID_FIELD_IN_CDB")]
         ELSE IF ~zbc_ozr_check(d, zbc_count_closed_swr(d, d.closed_zones.head))
         THEN [d |-> failed, ret |-> insuff]
         ELSE [d |-> zbc_open_zone_list(d, d.closed_zones.head),
               ret |-> TCMU_STS_OK]
    ELSE zbc_open_zone_zones(d, count,
                             zbc_get_check_zone(d, lba, count, oob))

\* Pre-check of a FINISH ZONE range: the first error met, or TCMU_STS_OK.
RECURSIVE zbc_finish_zone_check(_, _, _, _)
zbc_finish_zone_check(d, z, last, c) ==
    IF c = 0 \/ z > last THEN TCMU_STS_OK
    ELSE IF zbc_zone_inactive(d.zones[z])
    THEN zbc_set_sense("DATA_PROTECT", "ASC_ZONE_IS_INACTIVE")
    ELSE IF zbc_zone_offline(d.zones[z])
    THEN zbc_set_sense("DATA_PROTECT", "ASC_ZONE_IS_OFFLINE")
    ELSE IF zbc_zone_rdonly(d.zones[z])
    THEN zbc_set_sense("DATA_PROTECT", "ASC_ZONE_IS_READ_ONLY")
    ELSE IF zbc_zone_seq_req(d.zones[z])
            /\ (zbc_zone_closed(d.zones[z]) \/ zbc_zone_empty(d.zones[z]))
            /\ ~zbc_ozr_check(d, 1)
    THEN zbc_set_sense("DATA_PROTECT", "ASC_INSUFFICIENT_ZONE_RESOURCES")
    ELSE zbc_finish_zone_check(d, z + 1, last, c - 1)

RECURSIVE zbc_finish_zone_lists(_, _, _)
zbc_finish_zone_lists(e, lists, idx) ==
    IF idx # ZBC_LIST_NIL
    THEN zbc_finish_zone_lists(__zbc_finish_zone(e, idx, FALSE), lists,
                               e.zones[idx].next)
    ELSE IF lists = << >> THEN e
    ELSE zbc_finish_zone_lists(e, Tail(lists), e[Head(lists)].head)

RECURSIVE zbc_finish_zone_range(_, _, _, _)
zbc_finish_zone_range(e, z, last, c) ==
    IF c = 0 \/ z > last THEN e
    ELSE zbc_finish_zone_range(__zbc_finish_zone(e, z, TRUE),
                               z + 1, last, c - 1)

\* FINISH ZONE of the zones of a range; g is the result of
\* zbc_get_check_zone().
zbc_finish_zone_zones(d, count, g) ==
    LET checked(chk, finished) ==
            IF g.ret # TCMU_STS_OK THEN [d |-> d, ret |-> g.ret]
            ELSE IF chk # TCMU_STS_OK THEN [d |-> d, ret |-> chk]
            ELSE [d |-> finished, ret |-> TCMU_STS_OK]
    IN checked(zbc_finish_zone_check(d, g.zone, g.last, count),
               zbc_finish_zone_range(d, g.zone, g.last, count))

zbc_finish_zone(d, lba, count, all, oob) ==
    IF all
    THEN IF count # 0
         THEN [d |-> d, ret |-> zbc_set_sense("ILLEGAL_REQUEST",
                                              "ASC_INVALID_FIELD_IN_CDB")]
         ELSE [d |-> zbc_finish_zone_lists(
                         d, <<"imp_open_zones", "exp_open_zones",
                              "closed_zones">>, ZBC_LIST_NIL),
               ret |-> TCMU_STS_OK]
    ELSE zbc_finish_zone_zones(d, count,
                               zbc_get_check_zone(d, lba, count, oob))

\* The zone loops of RESET WRITE POINTER: the zones of the lists, one list
\* after the other (by_list), or count zones from z up to last.
RECURSIVE zbc_reset_wp_loop(_, _, _, _, _, _)
zbc_reset_wp_loop(e, by_list, lists, z, last, c) ==
    IF by_list /\ z = ZBC_LIST_NIL
    THEN IF lists = << >> THEN e
         ELSE zbc_reset_wp_loop(e, TRUE, Tail(lists), e[Head(lists)].head,
                                last, c)
    ELSE IF ~by_list /\ (c = 0 \/ z > last) THEN e
    ELSE zbc_reset_wp_loop(__zbc_reset_wp(e, z), by_list, lists,
                           IF by_list THEN e.zones[z].next ELSE z + 1,
                           last, IF by_list THEN c ELSE c - 1)

\* RESET WRITE POINTER of the zones of a range; g is the result of
\* zbc_get_check_zone().
zbc_reset_wp_zones(d, count, g) ==
    IF g.ret # TCMU_STS_OK THEN [d |-> d, ret |-> g.ret]
    ELSE [d |-> zbc_reset_wp_loop(d, FALSE, << >>, g.zone, g.last, count),
          ret |-> TCMU_STS_OK]

\* zbc_reset_wp() whose ALL variant walks the seq-active list only.
zbc_reset_wp_seq_active(d, lba, count, all, oob) ==
    IF all
    THEN IF count # 0
         THEN [d |-> d, ret |-> zbc_set_sense("ILLEGAL_REQUEST",
                                              "ASC_INVALID_FIELD_IN_CDB")]
         ELSE [d |-> zbc_reset_wp_loop(d, TRUE, <<"seq_active_zones">>,
                                       ZBC_LIST_NIL, 0, 0),
               ret |-> TCMU_STS_OK]
    ELSE zbc_reset_wp_zones(d, count, zbc_get_check_zone(d, lba, count, oob))

zbc_reset_wp(d, lba, count, all, oob) ==
    IF all
    THEN IF count # 0
         THEN [d |-> d, ret |-> zbc_set_sense("ILLEGAL_REQUEST",
                                              "ASC_INVALID_FIELD_IN_CDB")]
         ELSE [d |-> zbc_reset_wp_loop(
                         d, TRUE, <<"seq_active_zones", "imp_open_zones",
                                    "exp_open_zones", "closed_zones">>,
                         ZBC_LIST_NIL, 0, 0),
               ret |-> TCMU_STS_OK]
    ELSE zbc_reset_wp_zones(d, count, zbc_get_check_zone(d, lba, count, oob))

RECURSIVE zbc_sequentialize_zone_list(_, _)
zbc_sequentialize_zone_list(e, idx) ==
    IF idx = ZBC_LIST_NIL THEN e
    ELSE zbc_sequentialize_zone_list(__zbc_sequentialize_zone(e, idx),
                                     e.zones[idx].next)

RECURSIVE zbc_sequentialize_zone_range(_, _, _, _)
zbc_sequentialize_zone_range(e, z, last, c) ==
    IF c = 0 \/ z > last THEN e
    ELSE zbc_sequentialize_zone_range(
             IF ~zbc_zone_empty(e.zones[z])
             THEN __zbc_sequentialize_zone(e, z) ELSE e,
             z + 1, last, c - 1)

zbc_sequentialize_zone(d, lba, count, all, oob) ==
    LET illreq == [d |-> d, ret |-> zbc_set_sense("ILLEGAL_REQUEST",
                                                  "ASC_INVALID_FIELD_IN_CDB")]
        sequentialize(g) ==
            IF g.ret # TCMU_STS_OK THEN [d |-> d, ret |-> g.ret]
            ELSE IF \E z \in zbc_range(g.zone, g.last, count) :
                        ~zbc_zone_seq_pref(d.zones[z])
            THEN illreq
            ELSE [d |-> zbc_sequentialize_zone_range(d, g.zone, g.last,
                                                     count),
                  ret |-> TCMU_STS_OK]
    IN
    IF all
    THEN IF count # 0 THEN illreq
         ELSE [d |-> zbc_sequentialize_zone_list(d, d.closed_zones.head),
               ret |-> TCMU_STS_OK]
    ELSE sequentialize(zbc_get_check_zone(d, lba, count, oob))

zbc_out_zone(d, lba, count0, op, all, oob) ==
    LET count == IF ~all /\ count0 = 0 THEN 1 ELSE count0 IN
    CASE op = "ZBC_SA_CLOSE_ZONE" -> zbc_close_zone(d, lba, count, all, oob)
      [] op = "ZBC_SA_FINISH_ZONE" -> zbc_finish_zone(d, lba, count, all, oob)
      [] op = "ZBC_SA_OPEN_ZONE" -> zbc_open_zone(d, lba, count, all, oob)
      [] op = "ZBC_SA_RESET_WP" -> zbc_reset_wp(d, lba, count, all, oob)
      [] op = "ZBC_SA_SEQUENTIALIZE_ZONE" ->
            zbc_sequentialize_zone(d, lba, count, all, oob)

(***************************************************************************)
(* Read / write path                                                       *)
(***************************************************************************)
zbc_check_rdwr(d, lba, nr_lbas) ==
    IF zbc_lba_out_of_range(d, lba, nr_lbas)
    THEN zbc_set_sense("ILLEGAL_REQUEST", "ASC_LBA_OUT_OF_RANGE")
    ELSE TCMU_STS_OK

zbc_get_zone_lba_count(zone, start_lba, nr_lbas) ==
    IF start_lba + nr_lbas > zone.start + zone.len
    THEN zone.start + zone.len - start_lba
    ELSE nr_lbas

zbc_get_zone_boundary(zone) ==
    IF zbc_zone_empty(zone) \/ zbc_zone_gap(zone) THEN zone.start
    ELSE IF zbc_zone_not_wp(zone) \/ zbc_zone_full(zone)
    THEN zone.start + zone.len
    ELSE zone.wp

\* zbc_zone_ok_to_read() without the check of a read that starts below the
\* boundary of valid data and runs through it.
zbc_zone_ok_to_read_thru_wp(d, zone, lba, nr_lbas, first_zn_type) ==
    LET boundary == zbc_get_zone_boundary(zone) IN
    IF zbc_zone_gap(zone) /\ d.wp_check # 0
    THEN zbc_set_sense("ILLEGAL_REQUEST", "ASC_ATTEMPT_TO_ACCESS_GAP_ZONE")
    ELSE IF zbc_zone_offline(zone)
    THEN zbc_set_sense("DATA_PROTECT", "ASC_ZONE_IS_OFFLINE")
    ELSE IF zbc_zone_inactive(zone) /\ d.wp_check # 0
            /\ ~zbc_zone_conv(zone) /\ ~zbc_zone_seq_pref(zone)
    THEN zbc_set_sense("DATA_PROTECT", "ASC_ZONE_IS_INACTIVE")
    ELSE IF zone.type # first_zn_type
    THEN zbc_set_sense("ILLEGAL_REQUEST", "ASC_READ_BOUNDARY_VIOLATION")
    ELSE IF d.wp_check = 0 THEN TCMU_STS_OK
    ELSE IF zbc_zone_conv(zone) \/ zbc_zone_seq_pref(zone) THEN TCMU_STS_OK
    ELSE IF zbc_zone_seq_req(zone) /\ lba + nr_lbas > zone.start + zone.len
    THEN zbc_set_sense("ILLEGAL_REQUEST", "ASC_READ_BOUNDARY_VIOLATION")
    ELSE IF lba >= boundary
    THEN zbc_set_sense("ILLEGAL_REQUEST", "ASC_ATTEMPT_TO_READ_INVALID_DATA")
    ELSE TCMU_STS_OK

\* TCMU_STS_OK when the zone may be read, the sense to report otherwise.
zbc_zone_ok_to_read(d, zone, lba, nr_lbas, first_zn_type) ==
    LET boundary == zbc_get_zone_boundary(zone) IN
    IF zbc_zone_gap(zone) /\ d.wp_check # 0
    THEN zbc_set_sense("ILLEGAL_REQUEST", "ASC_ATTEMPT_TO_ACCESS_GAP_ZONE")
    ELSE IF zbc_zone_offline(zone)
    THEN zbc_set_sense("DATA_PROTECT", "ASC_ZONE_IS_OFFLINE")
    ELSE IF zbc_zone_inactive(zone) /\ d.wp_check # 0
            /\ ~zbc_zone_conv(zone) /\ ~zbc_zone_seq_pref(zone)
    THEN zbc_set_sense("DATA_PROTECT", "ASC_ZONE_IS_INACTIVE")
    ELSE IF zone.type # first_zn_type
    THEN zbc_set_sense("ILLEGAL_REQUEST", "ASC_READ_BOUNDARY_VIOLATION")
    ELSE IF d.wp_check = 0 THEN TCMU_STS_OK
    ELSE IF zbc_zone_conv(zone) \/ zbc_zone_seq_pref(zone) THEN TCMU_STS_OK
    ELSE IF zbc_zone_seq_req(zone) /\ lba + nr_lbas > zone.start + zone.len
    THEN zbc_set_sense("ILLEGAL_REQUEST", "ASC_READ_BOUNDARY_VIOLATION")
    ELSE IF lba < boundary
            /\ zbc_get_zone_lba_count(zone, lba, nr_lbas) > boundary - lba
    THEN zbc_set_sense("ILLEGAL_REQUEST", "ASC_ATTEMPT_TO_READ_INVALID_DATA")
    ELSE IF lba >= boundary
    THEN zbc_set_sense("ILLEGAL_REQUEST", "ASC_ATTEMPT_TO_READ_INVALID_DATA")
    ELSE TCMU_STS_OK

\* zbc_zone_ok_to_write() without the write pointer check of an SWR zone.
zbc_zone_ok_to_write_any_lba(zone, lba, nr_lbas, first_zn_type) ==
    IF zbc_zone_gap(zone)
    THEN zbc_set_sense("ILLEGAL_REQUEST", "ASC_ATTEMPT_TO_ACCESS_GAP_ZONE")
    ELSE IF zbc_zone_offline(zone)
    THEN zbc_set_sense("DATA_PROTECT", "ASC_ZONE_IS_OFFLINE")
    ELSE IF zbc_zone_inactive(zone)
    THEN zbc_set_sense("DATA_PROTECT", "ASC_ZONE_IS_INACTIVE")
    ELSE IF zbc_zone_rdonly(zone)
    THEN zbc_set_sense("DATA_PROTECT", "ASC_ZONE_IS_READ_ONLY")
    ELSE IF zone.type # first_zn_type
            \/ (zbc_zone_seq_req(zone)
                /\ lba + nr_lbas > zone.start + zone.len)
    THEN zbc_set_sense("ILLEGAL_REQUEST", "ASC_WRITE_BOUNDARY_VIOLATION")
    ELSE IF zbc_zone_seq_req(zone) /\ zbc_zone_full(zone)
    THEN zbc_set_sense("ILLEGAL_REQUEST", "ASC_INVALID_FIELD_IN_CDB")
    ELSE IF zbc_zone_sobr(zone) /\ ~zbc_zone_full(zone) /\ lba > zone.wp
    THEN zbc_set_sense("ILLEGAL_REQUEST", "ASC_UNALIGNED_WRITE_COMMAND")
    ELSE TCMU_STS_OK

\* TCMU_STS_OK when the zone may be written, the sense to report otherwise.
zbc_zone_ok_to_write(zone, lba, nr_lbas, first_zn_type) ==
    IF zbc_zone_gap(zone)
    THEN zbc_set_sense("ILLEGAL_REQUEST", "ASC_ATTEMPT_TO_ACCESS_GAP_ZONE")
    ELSE IF zbc_zone_offline(zone)
    THEN zbc_set_sense("DATA_PROTECT", "ASC_ZONE_IS_OFFLINE")
    ELSE IF zbc_zone_inactive(zone)
    THEN zbc_set_sense("DATA_PROTECT", "ASC_ZONE_IS_INACTIVE")
    ELSE IF zbc_zone_rdonly(zone)
    THEN zbc_set_sense("DATA_PROTECT", "ASC_ZONE_IS_READ_ONLY")
    ELSE IF zone.type # first_zn_type
            \/ (zbc_zone_seq_req(zone)
                /\ lba + nr_lbas > zone.start + zone.len)
    THEN zbc_set_sense("ILLEGAL_REQUEST", "ASC_WRITE_BOUNDARY_VIOLATION")
    ELSE IF zbc_zone_seq_req(zone) /\ zbc_zone_full(zone)
    THEN zbc_set_sense("ILLEGAL_REQUEST", "ASC_INVALID_FIELD_IN_CDB")
    ELSE IF zbc_zone_seq_req(zone) /\ lba # zone.wp
    THEN zbc_set_sense("ILLEGAL_REQUEST", "ASC_UNALIGNED_WRITE_COMMAND")
    ELSE IF zbc_zone_sobr(zone) /\ ~zbc_zone_full(zone) /\ lba > zone.wp
    THEN zbc_set_sense("ILLEGAL_REQUEST", "ASC_UNALIGNED_WRITE_COMMAND")
    ELSE TCMU_STS_OK

\* zbc_adjust_write_ptr() that adds the count to the write pointer of a zone
\* of any type.
zbc_adjust_write_ptr_add(d, idx, lba, count) ==
    LET zone == d.zones[idx]
        wp == zone.wp + count
        set_full(d3) ==
            [d3 EXCEPT !.zones[idx].cond = ZBC_ZONE_COND_FULL,
                       !.zones[idx].wp = IF zbc_zone_seq(zone)
                                         THEN zone.start + zone.len
                                         ELSE ZBC_NO_WP]
        not_wp(d2) ==
            [d2 EXCEPT !.zones[idx].cond = ZBC_ZONE_COND_NOT_WP,
                       !.zones[idx].wp = ZBC_NO_WP]
        closed(d1) == IF zbc_zone_is_open(zone)
                      THEN __zbc_close_zone(d1, idx) ELSE d1
    IN IF wp < zone.start + zone.len THEN [d EXCEPT !.zones[idx].wp = wp]
       ELSE IF zbc_zone_conv(zone)
       THEN not_wp(closed([d EXCEPT !.zones[idx].wp = wp]))
       ELSE zbc_add_zone_tail(
                set_full(zbc_on_cond_change(
                    zbc_unlink_zone(
                        closed([d EXCEPT !.zones[idx].wp = wp]), idx),
                    idx, ZBC_ZONE_COND_FULL)),
                "seq_active_zones", idx)

\* zbc_adjust_write_ptr() that moves the write pointer and never makes the
\* zone Full.
zbc_adjust_write_ptr_wp_only(d, idx, lba, count) ==
    [d EXCEPT !.zones[idx].wp = @ + count]

zbc_adjust_write_ptr(d, idx, lba, count) ==
    LET zone == d.zones[idx]
        wp == IF zbc_zone_seq_req(zone) THEN zone.wp + count
              ELSE IF (zbc_zone_seq_pref(zone) \/ zbc_zone_sobr(zone))
                      /\ lba + count > zone.wp
              THEN lba + count
              ELSE zone.wp
        set_full(d3) ==
            [d3 EXCEPT !.zones[idx].cond = ZBC_ZONE_COND_FULL,
                       !.zones[idx].wp = IF zbc_zone_seq(zone)
                                         THEN zone.start + zone.len
                                         ELSE ZBC_NO_WP]
        not_wp(d2) ==
            [d2 EXCEPT !.zones[idx].cond = ZBC_ZONE_COND_NOT_WP,
                       !.zones[idx].wp = ZBC_NO_WP]
        closed(d1) == IF zbc_zone_is_open(zone)
                      THEN __zbc_close_zone(d1, idx) ELSE d1
    IN IF wp < zone.start + zone.len THEN [d EXCEPT !.zones[idx].wp = wp]
       ELSE IF zbc_zone_conv(zone)
       THEN not_wp(closed([d EXCEPT !.zones[idx].wp = wp]))
       ELSE zbc_add_zone_tail(
                set_full(zbc_on_cond_change(
                    zbc_unlink_zone(
                        closed([d EXCEPT !.zones[idx].wp = wp]), idx),
                    idx, ZBC_ZONE_COND_FULL)),
                "seq_active_zones", idx)

\* The do-while loop over the zones of the range; .d carries the rule-fail
\* statistics.
RECURSIVE zbc_rdwr_check_zones_loop(_, _, _, _, _)
zbc_rdwr_check_zones_loop(d, read, lba, nr_lbas, first_zn_type) ==
    LET zno == zbc_get_zone(d, lba, FALSE)
        zone == d.zones[zno]
        first == IF first_zn_type = 0 THEN zone.type ELSE first_zn_type
        chk == IF read
               THEN zbc_zone_ok_to_read(d, zone, lba, nr_lbas, first)
               ELSE zbc_zone_ok_to_write(zone, lba, nr_lbas, first)
        count == zbc_get_zone_lba_count(zone, lba, nr_lbas)
    IN IF zno = NULL
       THEN [d |-> d, ret |-> zbc_set_sense("HARDWARE_ERROR",
                                            "ASC_INTERNAL_TARGET_FAILURE")]
       ELSE IF chk # TCMU_STS_OK
       THEN [d |-> IF read THEN [d EXCEPT !.stats.read_rule_fails = @ + 1]
                   ELSE [d EXCEPT !.stats.write_rule_fails = @ + 1],
             ret |-> chk]
       ELSE IF nr_lbas - count > 0
       THEN zbc_rdwr_check_zones_loop(d, read, lba + count, nr_lbas - count,
                                      first)
       ELSE [d |-> d, ret |-> TCMU_STS_OK]

zbc_rdwr_check_zones(d, read, lba, nr_lbas) ==
    zbc_rdwr_check_zones_loop(d, read, lba, nr_lbas, 0)

zbc_read_zoned(d, lba, len) ==
    LET result(sts, chk) == IF sts # TCMU_STS_OK THEN [d |-> d, ret |-> sts]
                            ELSE chk
    IN result(zbc_check_rdwr(d, lba, len),
              zbc_rdwr_check_zones(d, TRUE, lba, len))

\* The backstore file offset of an LBA: on a Zone Domains device the LBAs
\* of every domain but the first are taken relative to the domain's start.
zbc_bs_offset(d, lba) ==
    LET dom(i) == IF i \in DOMAIN d.domains THEN d.domains[i]
                  ELSE [start_lba |-> 0, end_lba |-> 0]
        rel == IF ~zbc_mt_zd(d) THEN lba
               ELSE IF lba <= dom(0).end_lba THEN lba
               ELSE IF lba <= dom(1).end_lba THEN lba - dom(1).start_lba
               ELSE IF lba <= dom(2).end_lba THEN lba - dom(2).start_lba
               ELSE IF lba <= dom(3).end_lba THEN lba - dom(3).start_lba
               ELSE lba
    IN d.meta_size + rel * d.lba_size

EIO == 5

\* Zeroes for a read above the write pointer, up to the end of the zone:
\* the number of bytes and, for every block put in the data buffer, where
\* the block comes from.
zbc_fill_zone_iov(d, zone, lba, nr_lbas) ==
    LET len == Min(zone.start + zone.len - lba, nr_lbas) IN
    [ret |-> len * d.lba_size,
     iov |-> [k \in 1..len |-> [src |-> "memset", off |-> 0]]]

\* Data of the backstore file from the offset of "lba" up to the boundary
\* of valid data, read into a data buffer of one vector; a read past the
\* end of the file comes back short.
zbc_read_zone_iov(d, zone, lba, nr_lbas, boundary) ==
    LET len == Min(boundary - lba, nr_lbas)
        off == zbc_bs_offset(d, lba)
    IN IF len > 0 /\ off + len * d.lba_size > d.st_size
       THEN [ret |-> -EIO, iov |-> << >>]
       ELSE [ret |-> len * d.lba_size,
             iov |-> [k \in 1..len |->
                         [src |-> "pread",
                          off |-> off + (k - 1) * d.lba_size]]]

\* The transfer loop of zbc_read_zoned(), entered when the checks have
\* passed: the status and the blocks of the data buffer.
RECURSIVE zbc_read_zoned_loop(_, _, _)
zbc_read_zoned_loop(d, lba, len) ==
    LET zno == zbc_get_zone(d, lba, FALSE)
        zone == d.zones[zno]
        boundary == zbc_get_zone_boundary(zone)
        r == IF lba >= boundary
             THEN zbc_fill_zone_iov(d, zone, lba, len)
             ELSE zbc_read_zone_iov(d, zone, lba, len, boundary)
        count == r.ret \div d.lba_size
        rest == zbc_read_zoned_loop(d, lba + count, len - count)
    IN IF len = 0 THEN [ret |-> TCMU_STS_OK, iov |-> << >>]
       ELSE IF zno = NULL
       THEN [ret |-> zbc_set_sense("HARDWARE_ERROR",
                                   "ASC_INTERNAL_TARGET_FAILURE"),
             iov |-> << >>]
       ELSE IF r.ret <= 0
       THEN [ret |-> zbc_set_sense("MEDIUM_ERROR", "ASC_READ_ERROR"),
             iov |-> << >>]
       ELSE [ret |-> rest.ret, iov |-> r.iov \o rest.iov]

RECURSIVE zbc_write_zoned_loop(_, _, _)
zbc_write_zoned_loop(d, lba, len) ==
    LET zno == zbc_get_zone(d, lba, FALSE)
        zone == d.zones[zno]
        need_open == (zbc_zone_seq(zone) \/ zbc_zone_sobr(zone))
                     /\ ~zbc_zone_is_open(zone) /\ ~zbc_zone_full(zone)
        count == zbc_get_zone_lba_count(zone, lba, len)
        written(d2) ==
            IF len - count > 0
            THEN zbc_write_zoned_loop(d2, lba + count, len - count)
            ELSE [d |-> d2, ret |-> TCMU_STS_OK]
        opened(d1) ==
            IF len = 0 THEN [d |-> d1, ret |-> TCMU_STS_OK]
            ELSE written(zbc_adjust_write_ptr(d1, zno, lba, count))
    IN IF zno = NULL
       THEN [d |-> d, ret |-> zbc_set_sense("HARDWARE_ERROR",
                                            "ASC_INTERNAL_TARGET_FAILURE")]
       ELSE IF need_open /\ zbc_zone_seq_req(zone) /\ ~zbc_ozr_check(d, 1)
       THEN [d |-> d,
             ret |-> zbc_set_sense("DATA_PROTECT",
                                   "ASC_INSUFFICIENT_ZONE_RESOURCES")]
       ELSE opened(IF need_open THEN __zbc_open_zone(d, zno, FALSE) ELSE d)

\* zbc_write_zoned() that opens the first zone before the zones are checked.
zbc_write_zoned_open_first(d, lba, len) ==
    LET zno == zbc_get_zone(d, lba, FALSE)
        d0 == IF zno = NULL THEN d ELSE __zbc_open_zone(d, zno, FALSE)
        result(sts, chk, written) ==
            IF sts # TCMU_STS_OK THEN [d |-> d, ret |-> sts]
            ELSE IF chk.ret # TCMU_STS_OK THEN chk
            ELSE written
    IN result(zbc_check_rdwr(d, lba, len),
              zbc_rdwr_check_zones(d0, FALSE, lba, len),
              zbc_write_zoned_loop(d0, lba, len))

zbc_write_zoned(d, lba, len) ==
    LET result(sts, chk, written) ==
            IF sts # TCMU_STS_OK THEN [d |-> d, ret |-> sts]
            ELSE IF chk.ret # TCMU_STS_OK THEN chk
            ELSE written
    IN result(zbc_check_rdwr(d, lba, len),
              zbc_rdwr_check_zones(d, FALSE, lba, len),
              zbc_write_zoned_loop(d, lba, len))

(***************************************************************************)
(* Zone activation (ZONE ACTIVATE / ZONE QUERY)                            *)
(***************************************************************************)
ULLONG_MAX == ZBC_NO_WP

zbc_domain_id(d, zt) == d.zone_type_to_dom[zt]

\* The binary search of zbc_get_zone_realm(): the last realm index probed.
RECURSIVE zbc_get_zone_realm_search(_, _, _, _, _, _)
zbc_get_zone_realm_search(d, zt, lba, l, h, r) ==
    IF l > h THEN r
    ELSE LET m == (l + h) \div 2
             rlba == zbc_realm_start(d.realms[m], zt)
         IN IF rlba = lba THEN m
            ELSE IF rlba < lba
            THEN zbc_get_zone_realm_search(d, zt, lba, m + 1, h, m)
            ELSE zbc_get_zone_realm_search(d, zt, lba, l, m - 1, m)

\* zbc_get_zone_realm() that accepts an LBA inside a realm when the start
\* LBA of the realm is asked for.
zbc_get_zone_realm_inside(d, lba, lowest) ==
    LET S == {i \in 0..(d.nr_domains - 1) :
                 lba >= d.domains[i].start_lba /\ lba <= d.domains[i].end_lba}
        fail == [r |-> -1, zone_type |-> 0]
    IN
    IF S = {} THEN fail
    ELSE LET bounds(zt, r, rlba, rlen) ==
                 IF rlen # 0 /\ (lba < rlba \/
                                 lba >= rlba + rlen * d.zone_size)
                 THEN fail
                 ELSE [r |-> r, zone_type |-> zt]
             realm(zt, r) == bounds(zt, r, zbc_realm_start(d.realms[r], zt),
                                    zbc_realm_length(d.realms[r], zt))
             below(zt, r0, rlba0) ==
                 IF lba < rlba0 /\ r0 = 0 THEN fail
                 ELSE realm(zt, IF lba < rlba0 THEN r0 - 1 ELSE r0)
             found(zt, r0) == below(zt, r0, zbc_realm_start(d.realms[r0], zt))
             search(zt) == found(zt, zbc_get_zone_realm_search(
                                         d, zt, lba, 0, d.nr_realms - 1, 0))
         IN search(d.domains[CHOOSE x \in S : \A y \in S : x <= y].type)

\* Result: .r is the realm index or -1, .zone_type the type of the domain
\* holding the LBA.
zbc_get_zone_realm(d, lba, lowest) ==
    LET S == {i \in 0..(d.nr_domains - 1) :
                 lba >= d.domains[i].start_lba /\ lba <= d.domains[i].end_lba}
        fail == [r |-> -1, zone_type |-> 0]
    IN
    IF S = {} THEN fail
    ELSE LET bounds(zt, r, rlba, rlen) ==
                 IF rlen # 0 /\ (lba < rlba \/
                                 lba >= rlba + rlen * d.zone_size)
                 THEN fail
                 ELSE IF lowest /\ lba # rlba THEN fail
                 ELSE [r |-> r, zone_type |-> zt]
             realm(zt, r) == bounds(zt, r, zbc_realm_start(d.realms[r], zt),
                                    zbc_realm_length(d.realms[r], zt))
             below(zt, r0, rlba0) ==
                 IF lba < rlba0 /\ r0 = 0 THEN fail
                 ELSE realm(zt, IF lba < rlba0 THEN r0 - 1 ELSE r0)
             found(zt, r0) == below(zt, r0, zbc_realm_start(d.realms[r0], zt))
             search(zt) == found(zt, zbc_get_zone_realm_search(
                                         d, zt, lba, 0, d.nr_realms - 1, 0))
         IN search(d.domains[CHOOSE x \in S : \A y \in S : x <= y].type)

\* The 24-byte activation results descriptor, by field.
zbc_fill_actv_record(d, zone, cond, nr_zones) ==
    [zone_type |-> zone.type, cond |-> cond * 16,
     domain |-> zbc_get_zone_domain(d, zone) % 256,
     nr_zones |-> nr_zones, start |-> zone.start]

\* oob stands for the word read past the end of the calloc()-ed map when
\* cmr_zones exceeds the number of CMR zones of a realm.
zbc_cmr_to_smr_zones(d, cmr_zones, oob) ==
    IF cmr_zones = 0 THEN -1
    ELSE IF cmr_zones \in DOMAIN d.cmr_nr_zones_to_smr
    THEN d.cmr_nr_zones_to_smr[cmr_zones]
    ELSE oob

zbc_smr_to_cmr_zones(d, smr_zones, oob) ==
    IF smr_zones = 0 THEN -1
    ELSE IF smr_zones \in DOMAIN d.smr_nr_zones_to_cmr
    THEN d.smr_nr_zones_to_cmr[smr_zones]
    ELSE oob

\* min() of two unsigned values: a negative operand is a huge unsigned one.
zbc_min_unsigned(a, b) ==
    IF a < 0 THEN b ELSE IF b < 0 THEN a ELSE Min(a, b)

zbc_get_deactv_realm_zones(d, r, offset, length, new_type, oob) ==
    LET old_dom == zbc_domain_id(d, r.type)
        new_dom == zbc_domain_id(d, new_type)
        old_smr == zbc_smr_domain(d.domains[old_dom])
        new_smr == zbc_smr_domain(d.domains[new_dom])
        len == IF r.type = new_type THEN length
               ELSE IF old_smr /\ ~new_smr
               THEN zbc_cmr_to_smr_zones(d, length, oob)
               ELSE IF ~old_smr /\ new_smr
               THEN zbc_smr_to_cmr_zones(d, length, oob)
               ELSE length
    IN IF r.type # new_type /\ (old_dom < 0 \/ new_dom < 0) THEN -1
       ELSE zbc_min_unsigned(zbc_realm_length(r, r.type) - offset, len)

\* Index of the first zone in first..(first + nr_zones - 1) that is in
\* stop, the set of the zones ending the scan, or first + nr_zones if there
\* is none (a negative count is unsigned: the scan runs to the end of the
\* zone array).
zbc_actv_scan(d, first, nr_zones, stop) ==
    LET end == IF nr_zones < 0 THEN d.nr_zones ELSE first + nr_zones
        S == {i \in first..(end - 1) : i \in stop}
    IN IF S = {} THEN end ELSE CHOOSE i \in S : \A j \in S : i <= j

\* Result: .ok, and the error bit and ZIWUP stored in the results if not.
zbc_chk_can_actv_realm(d, r, offset, length, new_type, all, oob) ==
    LET fail(err, ziwup) == [ok |-> FALSE, err |-> err, ziwup |-> ziwup]
        pass == [ok |-> TRUE, err |-> 0, ziwup |-> ULLONG_MAX]
        unsupp ==
            \/ ~all /\ ~zbc_can_actv_realm_as(r, new_type)
            \/ r.type = ZBC_ZONE_TYPE_CONVENTIONAL /\
               new_type = ZBC_ZONE_TYPE_SEQ_OR_BEF_REQ
            \/ r.type = ZBC_ZONE_TYPE_SEQ_OR_BEF_REQ /\
               new_type = ZBC_ZONE_TYPE_CONVENTIONAL
            \/ r.type = ZBC_ZONE_TYPE_SEQWRITE_PREF /\
               new_type = ZBC_ZONE_TYPE_SEQWRITE_REQ
            \/ r.type = ZBC_ZONE_TYPE_SEQWRITE_REQ /\
               new_type = ZBC_ZONE_TYPE_SEQWRITE_PREF
        \* the zone range being deactivated
        dz == zbc_realm_start_zone(r, r.type) + offset
        dn == zbc_get_deactv_realm_zones(d, r, offset, length, new_type, oob)
        dstop_all(z) == zbc_zone_closed(z) \/ zbc_zone_exp_open(z) \/
                        zbc_zone_imp_open(z) \/ zbc_zone_full(z)
        dstop(z) == ~zbc_zone_conv(z) /\ ~zbc_zone_empty(z) /\
                    ~zbc_zone_inactive(z)
        zones(S) == {i \in 0..(d.nr_zones - 1) : S[i]}
        di == IF all
              THEN zbc_actv_scan(d, dz, dn,
                                 zones([i \in 0..(d.nr_zones - 1) |->
                                           dstop_all(d.zones[i])]))
              ELSE zbc_actv_scan(d, dz, dn,
                                 zones([i \in 0..(d.nr_zones - 1) |->
                                           dstop(d.zones[i])]))
        have_zt(first, i) ==
            \E k \in first..(i - 1) :
                zbc_zone_empty(d.zones[k]) \/ zbc_zone_inactive(d.zones[k])
        \* the zone range being activated
        az == zbc_realm_start_zone(r, new_type) + offset
        an == zbc_min_unsigned(zbc_realm_length(r, new_type) - offset, length)
        astop_all(z) == zbc_zone_imp_open(z) \/ zbc_zone_full(z)
        astop(z) == ~zbc_zone_conv(z) /\ ~zbc_zone_empty(z) /\
                    ~zbc_zone_rdonly(z) /\ ~zbc_zone_offline(z) /\
                    ~zbc_zone_inactive(z)
        ai == IF all
              THEN zbc_actv_scan(d, az, an,
                                 zones([i \in 0..(d.nr_zones - 1) |->
                                           astop_all(d.zones[i])]))
              ELSE zbc_actv_scan(d, az, an,
                                 zones([i \in 0..(d.nr_zones - 1) |->
                                           astop(d.zones[i])]))
    IN
    IF unsupp
    THEN fail(ZBC_ACTV_ERR_UNSUPP, zbc_realm_start(r, r.type))
    ELSE IF di < dz + dn
    THEN fail(ZBC_ACTV_ERR_NOT_EMPTY, d.zones[di].start)
    ELSE IF all /\ ~have_zt(dz, di)
    THEN fail(ZBC_ACTV_ERR_NOT_EMPTY, ULLONG_MAX)
    ELSE IF ~zbc_can_actv_realm_as(r, new_type) THEN pass
    ELSE IF ai < az + an
    THEN fail(ZBC_ACTV_ERR_NOT_INACTIVE, d.zones[ai].start)
    ELSE IF all /\ ~have_zt(az, ai)
    THEN fail(ZBC_ACTV_ERR_NOT_INACTIVE, ULLONG_MAX)
    ELSE pass

\* A deactivation loop that leaves the zones of the realm as they are.
zbc_deactivate_realm_zones_skip(d, idx, n, cond) == d

RECURSIVE zbc_deactivate_realm_zones_loop(_, _, _, _)
zbc_deactivate_realm_zones_loop(d, idx, n, cond) ==
    IF n = 0 THEN d
    ELSE IF zbc_zone_rdonly(d.zones[idx]) \/ zbc_zone_offline(d.zones[idx])
    THEN zbc_deactivate_realm_zones_loop(d, idx + 1, n - 1, cond)
    ELSE zbc_deactivate_realm_zones_loop(
             zbc_set_initial_wp(
                 [zbc_on_cond_change(zbc_unlink_zone(d, idx), idx, cond)
                     EXCEPT !.zones[idx].cond = cond], idx),
             idx + 1, n - 1, cond)

\* Result: .d is the device afterwards, .buf the descriptor filled in.
zbc_deactivate_realm_zones(d, ri, offset, length, new_type, dry_run) ==
    LET r == d.realms[ri]
        zone == zbc_realm_start_zone(r, r.type)
        nr_zones == zbc_realm_length(r, r.type)
        same == new_type = r.type
        cond == IF same THEN d.zones[zone].cond ELSE ZBC_ZONE_COND_INACTIVE
    IN [d |-> IF dry_run \/ same THEN d
              ELSE zbc_deactivate_realm_zones_loop(d, zone, nr_zones, cond),
        buf |-> zbc_fill_actv_record(d, d.zones[zone], cond, nr_zones)]

RECURSIVE zbc_activate_realm_zones_loop(_, _, _, _)
zbc_activate_realm_zones_loop(d, idx, n, cond) ==
    IF n = 0 THEN d
    ELSE IF zbc_zone_rdonly(d.zones[idx]) \/ zbc_zone_offline(d.zones[idx])
    THEN zbc_activate_realm_zones_loop(d, idx + 1, n - 1, cond)
    ELSE LET set_cond(d1) ==
                 [d1 EXCEPT !.nr_empty_zones =
                                IF d1.zones[idx].cond # ZBC_ZONE_COND_EMPTY /\
                                   cond = ZBC_ZONE_COND_EMPTY
                                THEN @ + 1 ELSE @,
                            !.zones[idx].cond = cond]
         IN zbc_activate_realm_zones_loop(
                zbc_set_initial_wp(set_cond(zbc_unlink_zone(d, idx)), idx),
                idx + 1, n - 1, cond)

\* zbc_activate_realm_zones() that activates the zones in a dry run too.
zbc_activate_realm_zones_always(d, ri, offset, length, new_type, dry_run) ==
    LET r == d.realms[ri]
        zone == zbc_realm_start_zone(r, new_type)
        nr_zones == zbc_realm_length(r, new_type)
        same == new_type = r.type
        cond == IF same THEN d.zones[zone].cond
                ELSE IF new_type = ZBC_ZONE_TYPE_CONVENTIONAL
                THEN ZBC_ZONE_COND_NOT_WP
                ELSE ZBC_ZONE_COND_EMPTY
    IN [d |-> IF same THEN d
              ELSE zbc_activate_realm_zones_loop(d, zone, nr_zones, cond),
        buf |-> zbc_fill_actv_record(d, d.zones[zone], cond, nr_zones)]

zbc_activate_realm_zones(d, ri, offset, length, new_type, dry_run) ==
    LET r == d.realms[ri]
        zone == zbc_realm_start_zone(r, new_type)
        nr_zones == zbc_realm_length(r, new_type)
        same == new_type = r.type
        cond == IF same THEN d.zones[zone].cond
                ELSE IF new_type = ZBC_ZONE_TYPE_CONVENTIONAL
                THEN ZBC_ZONE_COND_NOT_WP
                ELSE ZBC_ZONE_COND_EMPTY
    IN [d |-> IF dry_run \/ same THEN d
              ELSE zbc_activate_realm_zones_loop(d, zone, nr_zones, cond),
        buf |-> zbc_fill_actv_record(d, d.zones[zone], cond, nr_zones)]

\* struct zbc_za_results after zbc_init_actv_results().
zbc_za_results ==
    [recs |-> << >>, ziwup |-> ULLONG_MAX, nr_desc |-> 0, error |-> 0]

\* An OR that drops the error bit.
zbc_or_bit_none(bits, bit) == bits

\* Bitwise OR of an error bit into the error bits collected so far.
zbc_or_bit(bits, bit) ==
    IF bit = 0 \/ (bits \div bit) % 2 = 1 THEN bits ELSE bits + bit

\* The conversion of zbc_activate_realm(), once the realm has passed its
\* checks and de is the result of deactivating its zones.
zbc_activate_realm_conv(d, ri, offset, length, new_type, dry_run, res, de) ==
    LET r == d.realms[ri]
        rs_old == zbc_realm_start(r, r.type)
        rs_new == zbc_realm_start(r, new_type)
        deac_1st == rs_old < rs_new
        desc(ac) == IF deac_1st THEN [first |-> de.buf, second |-> ac.buf]
                    ELSE [first |-> ac.buf, second |-> de.buf]
        activated(ac) ==
            [ret |-> 0,
             d |-> IF dry_run THEN ac.d
                   ELSE [ac.d EXCEPT !.realms[ri].type = new_type],
             res |-> [res EXCEPT
                         !.recs = Append(@, desc(ac)),
                         !.nr_desc = @ + (IF rs_old # rs_new THEN 2 ELSE 1)]]
    IN activated(zbc_activate_realm_zones(de.d, ri, offset, length,
                                          new_type, dry_run))

\* Result: .ret is 1 if the realm fails its checks and 0 otherwise, .d the
\* device and .res the activation results afterwards.  The descriptor
\* allocation is taken to succeed.
zbc_activate_realm(d, ri, offset, length, new_type, dry_run, all, res, oob) ==
    LET checked(chk, conv) ==
            IF ~chk.ok
            THEN [ret |-> 1, d |-> d,
                  res |-> [res EXCEPT !.ziwup = chk.ziwup,
                                      !.error = zbc_or_bit(@, chk.err)]]
            ELSE IF ~zbc_can_actv_realm_as(d.realms[ri], new_type)
            THEN [ret |-> 0, d |-> d, res |-> res]
            ELSE conv
    IN checked(zbc_chk_can_actv_realm(d, d.realms[ri], offset, length,
                                      new_type, all, oob),
               zbc_activate_realm_conv(
                   d, ri, offset, length, new_type, dry_run, res,
                   zbc_deactivate_realm_zones(d, ri, offset, length,
                                              new_type, dry_run)))

\* The realm loop of zbc_zone_activate().  Result: .d, .res and .ok.
RECURSIVE zbc_zone_activate_loop(_, _, _, _, _, _, _, _, _, _, _)
zbc_zone_activate_loop(d, i, end, ofs, nz, sz, new_type, dry_run, all, res, oob) ==
    IF i >= end THEN [d |-> d, res |-> res, ok |-> TRUE]
    ELSE LET next(a) ==
                 IF a.ret # 0 THEN [d |-> a.d, res |-> a.res, ok |-> FALSE]
                 ELSE zbc_zone_activate_loop(a.d, i + 1, end, 0,
                                             nz - (sz - ofs), sz, new_type,
                                             dry_run, all, a.res, oob)
         IN next(zbc_activate_realm(d, i, ofs, Min(nz, sz), new_type,
                                    dry_run, all, res, oob))

\* The realm index one past the last realm of the activation range, and
\* the zone count left over.
RECURSIVE zbc_zone_activate_end(_, _, _, _)
zbc_zone_activate_end(d, end, nz, sz) ==
    IF end < d.nr_realms /\ nz > 0
    THEN zbc_zone_activate_end(d, end + 1, nz - sz, sz)
    ELSE [end |-> end, nz |-> nz]

ZBC_ACTV_RES_HEADER_SIZE == 64

ZBC_ACTV_RES_DESCRIPTOR_SIZE == 24

\* The descriptors copied to the data buffer: the "first" descriptor of
\* every record, then the "second" ones, while room is left.
zbc_actv_output(recs, nr_desc, len) ==
    LET fits == len \div ZBC_ACTV_RES_DESCRIPTOR_SIZE
        n1 == Min(Len(recs), fits)
        i1 == nr_desc - n1
        n2 == IF i1 <= 0 THEN 0 ELSE Min(Min(i1, Len(recs)), fits - n1)
    IN [k \in 1..n1 |-> recs[k].first] \o [k \in 1..n2 |-> recs[k].second]

\* zbc_zone_activate() from the lookup of the first zone on: sr is the
\* result of zbc_get_zone_realm() for the start LBA.
zbc_zone_activate_realms(d, start_lba, nr_zones, domain_id, alloc_len, all, nozsrc, dry_run, oob, sr) ==
    LET illreq == [d |-> d,
                   ret |-> zbc_set_sense("ILLEGAL_REQUEST",
                                         "ASC_INVALID_FIELD_IN_CDB"),
                   hdr |-> << >>, desc |-> << >>]
        dom == d.domains[domain_id]
        zone == zbc_get_zone(d, start_lba, TRUE)
        i == zbc_get_zone_domain(d, d.zones[zone])
        start_realm == sr.r
        addr_zt == sr.zone_type
        new_type == IF all \/ ~zbc_zone_inactive(d.zones[zone])
                    THEN dom.type ELSE addr_zt
        end_dom == zbc_get_zone_domain(d, d.zones[zone + nr_zones - 1])
        ofs == IF ~d.realms_feat_set
               THEN (d.zones[zone].start -
                     zbc_realm_start(d.realms[start_realm],
                                     d.zones[zone].type)) \div d.zone_size
               ELSE 0
        sz == IF zbc_smr_domain(d.domains[zbc_domain_id(d, addr_zt)])
              THEN d.nr_smr_realm_zones ELSE d.nr_cmr_realm_zones
        e == IF ofs # 0
             THEN zbc_zone_activate_end(d, start_realm + 1,
                                        nr_zones - (sz - ofs), sz)
             ELSE zbc_zone_activate_end(d, start_realm, nr_zones, sz)
        status0 == IF all THEN 0 ELSE ZBC_ACTV_STAT_NZP_VALID
        out(d1, res, ok) ==
            LET len == alloc_len - ZBC_ACTV_RES_HEADER_SIZE
                size == res.nr_desc * ZBC_ACTV_RES_DESCRIPTOR_SIZE
                ziwup_valid == ~ok /\ res.ziwup # ULLONG_MAX
                status == status0
                          + (IF ok /\ ~dry_run
                             THEN ZBC_ACTV_STAT_ACTIVATED ELSE 0)
                          + (IF ziwup_valid
                             THEN ZBC_ACTV_STAT_ZIWUP_VALID ELSE 0)
            IN [d |-> d1, ret |-> TCMU_STS_OK,
                hdr |-> [length |-> size, avail |-> Min(size, len),
                         status |-> status, error |-> res.error,
                         domain_id |-> domain_id, nozsrc |-> nozsrc,
                         all |-> all,
                         nz |-> IF all THEN 0 ELSE nr_zones,
                         ziwup |-> IF ziwup_valid THEN res.ziwup ELSE 0],
                desc |-> IF ok
                         THEN zbc_actv_output(res.recs, res.nr_desc, len)
                         ELSE << >>]
        err(bit) == out(d, [zbc_za_results EXCEPT !.error = bit,
                                                  !.ziwup = start_lba],
                        FALSE)
        finish(run) == out(run.d, run.res, run.ok)
    IN
    IF zone = NULL THEN illreq
    ELSE IF zone > d.nr_zones - nr_zones THEN illreq
    ELSE IF i < 0 THEN illreq
    ELSE IF start_realm < 0 THEN err(ZBC_ACTV_ERR_REALM_ALIGN)
    ELSE IF i # end_dom THEN err(ZBC_ACTV_ERR_MULTI_DOMAINS)
    ELSE IF d.realms_feat_set /\ e.nz # 0 THEN err(ZBC_ACTV_ERR_REALM_ALIGN)
    ELSE finish(zbc_zone_activate_loop(d, start_realm, e.end, ofs, nr_zones,
                                       sz, new_type, dry_run, all,
                                       zbc_za_results, oob))

\* Result: .d is the device afterwards, .ret the status, .hdr the activation
\* results header (empty if none is returned) and .desc the descriptors
\* that follow it.  The data buffer holds alloc_len bytes.
zbc_zone_activate(d, start_lba0, nr_zones0, domain_id, alloc_len, all, nozsrc, dry_run, oob) ==
    LET illreq == [d |-> d,
                   ret |-> zbc_set_sense("ILLEGAL_REQUEST",
                                         "ASC_INVALID_FIELD_IN_CDB"),
                   hdr |-> << >>, desc |-> << >>]
        dom == d.domains[domain_id]
        start_lba == IF all THEN dom.start_lba ELSE start_lba0
        nr_zones == IF all THEN dom.nr_zones ELSE nr_zones0
    IN
    IF domain_id >= d.nr_domains THEN illreq
    ELSE IF nr_zones = 0 THEN illreq
    ELSE IF nr_zones > d.nr_zones THEN illreq
    ELSE IF alloc_len < ZBC_ACTV_RES_HEADER_SIZE THEN illreq
    ELSE zbc_zone_activate_realms(
             d, start_lba, nr_zones, domain_id, alloc_len, all, nozsrc,
             dry_run, oob,
             zbc_get_zone_realm(d, start_lba, d.realms_feat_set /\ ~all))

\* ZONE ACTIVATE(16) / ZONE QUERY(16): without NOZSRC the zone count is the
\* FSNOZ value of the device.
zbc_scsi_zone_activate16(d, all, domain_id, start_lba, len, nozsrc, nzsrc, dry_run, oob) ==
    IF nozsrc /\ dev_feat(d).no_nozsrc
    THEN [d |-> d,
          ret |-> zbc_set_sense("ILLEGAL_REQUEST", "ASC_INVALID_FIELD_IN_CDB"),
          hdr |-> << >>, desc |-> << >>]
    ELSE zbc_zone_activate(d, start_lba,
                           IF nozsrc THEN nzsrc ELSE d.nr_actv_zones,
                           domain_id, len, all, nozsrc, dry_run, oob)

\* ZONE ACTIVATE(32) / ZONE QUERY(32): cdb7 is the additional CDB length and
\* sa the service action.
zbc_scsi_zone_activate32(d, cdb7, sa, all, domain_id, start_lba, len, nozsrc, nzsrc, oob) ==
    LET illreq == [d |-> d,
                   ret |-> zbc_set_sense("ILLEGAL_REQUEST",
                                         "ASC_INVALID_FIELD_IN_CDB"),
                   hdr |-> << >>, desc |-> << >>]
    IN
    IF cdb7 # 24 THEN illreq
    ELSE IF sa \notin {"ZBC_SA_ZONE_ACTIVATE_32", "ZBC_SA_ZONE_QUERY_32"}
    THEN illreq
    ELSE IF nozsrc /\ dev_feat(d).no_nozsrc THEN illreq
    ELSE zbc_zone_activate(d, start_lba,
                           IF nozsrc THEN nzsrc ELSE d.nr_actv_zones,
                           domain_id, len, all, nozsrc,
                           sa = "ZBC_SA_ZONE_QUERY_32", oob)

(***************************************************************************)
(* Metadata validation.  Every check yields the number the code stores in  *)
(* "failed": 0 if the check passes.                                        *)
(***************************************************************************)
zbc_mt_hm(d) == d.dev_type = ZBC_MT_HM_ZONED

zbc_mt_ha(d) == d.dev_type = ZBC_MT_HA_ZONED

zbc_first_zone(zl) == IF zl.head = ZBC_LIST_NIL THEN NULL ELSE zl.head

zbc_next_zone(zone) == IF zone.next = ZBC_LIST_NIL THEN NULL ELSE zone.next

\* The list walk of zbc_check_list(): z is the zone reached, prev the one
\* before it and sz the number of zones walked so far.
RECURSIVE zbc_check_list_walk(_, _, _, _, _)
zbc_check_list_walk(d, zl, z, prev, sz) ==
    IF z = NULL
    THEN IF sz # zl.size THEN 10
         ELSE IF sz = 0
         THEN IF zl.head # ZBC_LIST_NIL THEN 11
              ELSE IF zl.tail # ZBC_LIST_NIL THEN 12 ELSE 0
         ELSE IF sz = 1
         THEN IF zl.head # prev THEN 13
              ELSE IF zl.tail # prev THEN 14 ELSE 0
         ELSE IF zl.head = prev THEN 15
              ELSE IF zl.tail # prev THEN 16
              ELSE IF zl.head = ZBC_LIST_NIL THEN 17 ELSE 0
    ELSE LET zone == d.zones[z] IN
         IF zbc_zone_not_in_list(zone) THEN 3
         ELSE IF zone.next # ZBC_LIST_NIL /\ zone.next >= d.nr_zones THEN 4
         ELSE IF zone.prev # ZBC_LIST_NIL /\ zone.prev >= d.nr_zones THEN 5
         ELSE IF prev # NULL /\ zone.prev = ZBC_LIST_NIL THEN 6
         ELSE IF prev # NULL /\ zone.prev # prev THEN 7
         ELSE IF prev = NULL /\ zone.prev # ZBC_LIST_NIL THEN 8
         ELSE IF sz + 1 > d.nr_zones THEN 9
         ELSE zbc_check_list_walk(d, zl, zbc_next_zone(zone), z, sz + 1)

zbc_check_list(d, zl) ==
    IF zl.head # ZBC_LIST_NIL /\ zl.head >= d.nr_zones THEN 1
    ELSE IF zl.tail # ZBC_LIST_NIL /\ zl.tail >= d.nr_zones THEN 2
    ELSE zbc_check_list_walk(d, zl, zbc_first_zone(zl), NULL, 0)

\* The zones of a list that passed zbc_check_list(), in list order.
RECURSIVE zbc_list_zones(_, _)
zbc_list_zones(d, z) ==
    IF z = NULL THEN << >>
    ELSE <<z>> \o zbc_list_zones(d, zbc_next_zone(d.zones[z]))

\* The number of the check failed by the first failing zone of the list;
\* bad[zno] is the number of the first per-zone check zone zno fails, in
\* the order of the code, or 0.
zbc_check_list_zones(d, zl, bad) ==
    LET zs == zbc_list_zones(d, zbc_first_zone(zl))
        F == {k \in 1..Len(zs) : bad[zs[k]] # 0}
    IN IF F = {} THEN 0
       ELSE bad[zs[CHOOSE k \in F : \A j \in F : k <= j]]

\* The number of zones zno with P[zno].
zbc_count_zones(d, P) ==
    Cardinality({i \in 0..(d.nr_zones - 1) : P[i]})

zbc_check_zone_lists(d) ==
    LET imp_bad(z) == IF zbc_zone_conv(z) THEN 2
                      ELSE IF ~zbc_zone_imp_open(z) THEN 3 ELSE 0
        exp_bad(z) == IF zbc_zone_conv(z) THEN 6
                      ELSE IF ~zbc_zone_exp_open(z) THEN 7 ELSE 0
        closed_bad(z) == IF zbc_zone_conv(z) THEN 10
                         ELSE IF ~zbc_zone_closed(z) THEN 11 ELSE 0
        seq_bad(z) == IF zbc_zone_conv(z) THEN 14
                      ELSE IF zbc_zone_closed(z) THEN 15
                      ELSE IF zbc_zone_imp_open(z) THEN 16
                      ELSE IF zbc_zone_inactive(z) THEN 17
                      ELSE IF zbc_zone_offline(z) THEN 18
                      ELSE IF zbc_zone_rdonly(z) THEN 19 ELSE 0
        seq_active(z) == (zbc_zone_seq(z) \/ zbc_zone_sobr(z)) /\
                         (zbc_zone_empty(z) \/ zbc_zone_full(z))
        imp == zbc_check_list_zones(d, d.imp_open_zones,
               [i \in 0..(d.nr_zones - 1) |->
                   imp_bad(d.zones[i])])
        exp == zbc_check_list_zones(d, d.exp_open_zones,
               [i \in 0..(d.nr_zones - 1) |->
                   exp_bad(d.zones[i])])
        closed == zbc_check_list_zones(d, d.closed_zones,
                  [i \in 0..(d.nr_zones - 1) |->
                      closed_bad(d.zones[i])])
        seq == zbc_check_list_zones(d, d.seq_active_zones,
               [i \in 0..(d.nr_zones - 1) |->
                   seq_bad(d.zones[i])])
    IN
    IF zbc_check_list(d, d.imp_open_zones) # 0 THEN 1
    ELSE IF imp # 0 THEN imp
    ELSE IF zbc_count_zones(d, [i \in 0..(d.nr_zones - 1) |->
                                   zbc_zone_imp_open(d.zones[i])])
            # d.imp_open_zones.size
    THEN 4
    ELSE IF zbc_check_list(d, d.exp_open_zones) # 0 THEN 5
    ELSE IF exp # 0 THEN exp
    ELSE IF zbc_count_zones(d, [i \in 0..(d.nr_zones - 1) |->
                                   zbc_zone_exp_open(d.zones[i])])
            # d.exp_open_zones.size
    THEN 8
    ELSE IF zbc_check_list(d, d.closed_zones) # 0 THEN 9
    ELSE IF closed # 0 THEN closed
    ELSE IF zbc_count_zones(d, [i \in 0..(d.nr_zones - 1) |->
                                   zbc_zone_closed(d.zones[i])])
            # d.closed_zones.size
    THEN 12
    ELSE IF zbc_check_list(d, d.seq_active_zones) # 0 THEN 13
    ELSE IF seq # 0 THEN seq
    ELSE IF zbc_count_zones(d, [i \in 0..(d.nr_zones - 1) |->
                                   seq_active(d.zones[i])])
            # d.seq_active_zones.size
    THEN 20
    ELSE 0

zbc_check_zone(d, zno) ==
    LET zone == d.zones[zno]
        type_bad ==
            IF zone.type = ZBC_ZONE_TYPE_CONVENTIONAL THEN 0
            ELSE IF zone.type = ZBC_ZONE_TYPE_SEQ_OR_BEF_REQ
            THEN IF ~zbc_mt_zd(d) THEN 1 ELSE 0
            ELSE IF zone.type = ZBC_ZONE_TYPE_SEQWRITE_REQ
            THEN IF zbc_mt_ha(d) THEN 2 ELSE 0
            ELSE IF zone.type = ZBC_ZONE_TYPE_SEQWRITE_PREF
            THEN IF zbc_mt_hm(d) THEN 3 ELSE 0
            ELSE IF zone.type = ZBC_ZONE_TYPE_GAP
            THEN IF ~zbc_mt_zd(d) THEN 4 ELSE 0
            ELSE 5
        cond_bad ==
            IF zone.cond = ZBC_ZONE_COND_NOT_WP
            THEN IF ~zbc_zone_conv(zone) /\ ~zbc_zone_gap(zone) THEN 6
                 ELSE IF zone.wp # ZBC_NO_WP THEN 7 ELSE 0
            ELSE IF zone.cond \in {ZBC_ZONE_COND_OFFLINE,
                                   ZBC_ZONE_COND_READONLY}
            THEN IF zone.wp # ZBC_NO_WP THEN 7 ELSE 0
            ELSE IF zone.cond = ZBC_ZONE_COND_EMPTY
            THEN IF zbc_zone_conv(zone) THEN 8
                 ELSE IF zone.wp # zone.start THEN 9 ELSE 0
            ELSE IF zone.cond \in {ZBC_ZONE_COND_EXP_OPEN,
                                   ZBC_ZONE_COND_CLOSED}
            THEN IF zbc_zone_nseq(zone) THEN 10 ELSE 0
            ELSE IF zone.cond = ZBC_ZONE_COND_IMP_OPEN
            THEN IF zbc_zone_conv(zone) THEN 11
                 ELSE IF zone.wp < zone.start \/
                         zone.wp >= zone.start + zone.len THEN 12
                 ELSE 0
            ELSE IF zone.cond = ZBC_ZONE_COND_FULL
            THEN IF zbc_zone_conv(zone) THEN 13
                 ELSE IF zbc_zone_sobr(zone)
                 THEN IF zone.wp # ZBC_NO_WP THEN 14 ELSE 0
                 ELSE IF zone.wp # zone.start + zone.len THEN 15 ELSE 0
            ELSE IF zone.cond = ZBC_ZONE_COND_INACTIVE
            THEN IF ~zbc_mt_zd(d) THEN 16
                 ELSE IF zone.wp # ZBC_NO_WP THEN 17 ELSE 0
            ELSE 18
    IN
    IF type_bad # 0 THEN type_bad
    ELSE IF cond_bad # 0 THEN cond_bad
    ELSE IF zno > 0 /\ zone.start - d.zones[zno - 1].len #
                         d.zones[zno - 1].start
    THEN 19
    ELSE IF zone.start % d.zone_size # 0 \/ zone.len > d.zone_size THEN 20
    ELSE 0

\* The per-domain loop of zbc_check_zone_domains(): checks 3 to 5 leave the
\* loop without failing the validation.
RECURSIVE zbc_check_zone_domains_loop(_, _)
zbc_check_zone_domains_loop(d, i) ==
    IF i >= d.nr_domains THEN 0
    ELSE LET dom == d.domains[i]
             feat == dev_feat(d)
         IN
         IF dom.end_lba = 0 THEN 0
         ELSE IF dom.start_lba % d.zone_size # 0 THEN 0
         ELSE IF (dom.end_lba + 1) % d.zone_size # 0 THEN 0
         ELSE IF dom.end_lba - dom.start_lba > d.phys_capacity THEN 6
         ELSE IF i > 0 /\ dom.start_lba <= d.domains[i - 1].start_lba THEN 7
         ELSE IF i > 0 /\ dom.start_lba <= d.domains[i - 1].end_lba THEN 8
         ELSE IF dom.nr_zones #
                 (dom.end_lba - dom.start_lba + 1) \div d.zone_size THEN 9
         ELSE IF dom.type = ZBC_ZONE_TYPE_CONVENTIONAL /\ ~feat.actv_of_conv
         THEN 10
         ELSE IF dom.type = ZBC_ZONE_TYPE_SEQWRITE_REQ /\
                 ~feat.actv_of_seq_req THEN 11
         ELSE IF dom.type = ZBC_ZONE_TYPE_SEQWRITE_PREF /\
                 ~feat.actv_of_seq_pref THEN 12
         ELSE IF dom.type = ZBC_ZONE_TYPE_SEQ_OR_BEF_REQ /\
                 ~feat.actv_of_sobr THEN 13
         ELSE IF dom.type \notin 1..4 THEN 14
         ELSE zbc_check_zone_domains_loop(d, i + 1)

\* One "have_type" pass: exactly one domain of the type, of the right kind.
zbc_check_domain_type(d, type, smr, base) ==
    LET S == {i \in 0..(d.nr_domains - 1) : d.domains[i].type = type}
        first == CHOOSE i \in S : \A j \in S : i <= j
        \* the loop fails at the first domain that is a duplicate or of the
        \* wrong kind
        B == {i \in S : i # first \/ zbc_smr_domain(d.domains[i]) # smr}
        b == CHOOSE i \in B : \A j \in B : i <= j
    IN IF S = {} THEN base + 2
       ELSE IF B = {} THEN 0
       ELSE IF b # first THEN base
       ELSE base + 1

zbc_check_zone_domains(d) ==
    LET feat == dev_feat(d)
        loop == zbc_check_zone_domains_loop(d, 0)
        conv == IF feat.actv_of_conv
                THEN zbc_check_domain_type(d, ZBC_ZONE_TYPE_CONVENTIONAL,
                                           FALSE, 15) ELSE 0
        seq_req == IF feat.actv_of_seq_req
                   THEN zbc_check_domain_type(d, ZBC_ZONE_TYPE_SEQWRITE_REQ,
                                              TRUE, 18) ELSE 0
        seq_pref == IF feat.actv_of_seq_pref
                    THEN zbc_check_domain_type(d,
                                               ZBC_ZONE_TYPE_SEQWRITE_PREF,
                                               TRUE, 21) ELSE 0
        sobr == IF feat.actv_of_sobr
                THEN zbc_check_domain_type(d, ZBC_ZONE_TYPE_SEQ_OR_BEF_REQ,
                                           FALSE, 24) ELSE 0
        or_else(ret, rest) == IF ret # 0 THEN ret ELSE rest
    IN
    IF d.nr_domains = 0 THEN 1
    ELSE IF d.domains[0].start_lba # 0 THEN 2
    ELSE or_else(loop, or_else(conv, or_else(seq_req,
                                             or_else(seq_pref, sobr))))

ZBC_NR_ZONE_TYPES == 4

\* The checks of zbc_check_zone_realm() on the realm item of zone type zt.
\* Result: .failed, .available (some zone is neither read-only nor offline)
\* and .active (the first such zone is not inactive).
zbc_check_realm_item(d, r, zt) ==
    LET ri == r.ri[zt]
        res(f, av, ac) == [failed |-> f, available |-> av, active |-> ac]
        dom_id == zbc_domain_id(d, zt)
        dom == d.domains[dom_id]
        smr == zbc_smr_domain(dom)
        zone == zbc_get_zone(d, ri.start_lba, TRUE)
        zs == zone..(zone + ri.length - 1)
        usable(z) == ~zbc_zone_rdonly(d.zones[z]) /\
                     ~zbc_zone_offline(d.zones[z])
        U == {z \in zs : usable(z)}
        first == IF U = {} THEN zone + ri.length
                 ELSE CHOOSE z \in U : \A y \in U : z <= y
        zone_inact == U # {} /\ zbc_zone_inactive(d.zones[first])
        \* zones scanned by the first loop, and by the second
        K1 == {z \in zs : z <= first /\ smr # zbc_zone_seq(d.zones[z])}
        K2 == {z \in zs : z >= first /\
                  (smr # zbc_zone_seq(d.zones[z]) \/
                   (usable(z) /\
                    zone_inact # zbc_zone_inactive(d.zones[z])))}
        k2 == CHOOSE z \in K2 : \A y \in K2 : z <= y
    IN
    IF ri.length = 0
    THEN IF ri.start_lba # 0 THEN res(7, TRUE, FALSE)
         ELSE IF zbc_can_actv_realm_as(r, zt) THEN res(8, TRUE, FALSE)
         ELSE res(0, TRUE, FALSE)
    ELSE IF dom_id < 0 THEN res(9, TRUE, FALSE)
    ELSE IF dom.type # zt THEN res(10, TRUE, FALSE)
    ELSE IF smr /\ ri.length # d.nr_smr_realm_zones THEN res(11, TRUE, FALSE)
    ELSE IF ~smr /\ ri.length # d.nr_cmr_realm_zones
    THEN res(12, TRUE, FALSE)
    ELSE IF ri.start_lba < dom.start_lba THEN res(13, TRUE, FALSE)
    ELSE IF ri.start_lba + ri.length * d.zone_size - 1 > dom.end_lba
    THEN res(14, TRUE, FALSE)
    ELSE IF ri.start_lba % d.zone_size # 0 THEN res(15, TRUE, FALSE)
    ELSE IF ri.start_zone >= d.nr_zones THEN res(16, TRUE, FALSE)
    ELSE IF ~zbc_can_actv_realm_as(r, zt) THEN res(17, TRUE, FALSE)
    ELSE IF zone = NULL THEN res(18, TRUE, FALSE)
    ELSE IF K1 # {} THEN res(19, TRUE, FALSE)
    ELSE IF K2 # {}
    THEN res(IF smr # zbc_zone_seq(d.zones[k2]) THEN 20 ELSE 21,
             TRUE, FALSE)
    ELSE res(0, U # {}, ~zone_inact)

zbc_check_zone_realm(d, rno) ==
    LET r == d.realms[rno]
        dom_id == zbc_domain_id(d, r.type)
        F(items) == {zt \in 1..ZBC_NR_ZONE_TYPES : items[zt].failed # 0}
        realm_available(items) ==
            \A zt \in 1..ZBC_NR_ZONE_TYPES : items[zt].available
        nr_active(items) == Cardinality({zt \in 1..ZBC_NR_ZONE_TYPES :
                                            items[zt].active})
        checked(items) ==
            IF F(items) # {}
            THEN items[CHOOSE zt \in F(items) :
                           \A y \in F(items) : zt <= y].failed
            ELSE IF realm_available(items) /\ nr_active(items) # 1 THEN 22
            ELSE 0
    IN
    IF r.type \notin {ZBC_ZONE_TYPE_CONVENTIONAL,
                      ZBC_ZONE_TYPE_SEQ_OR_BEF_REQ,
                      ZBC_ZONE_TYPE_SEQWRITE_REQ,
                      ZBC_ZONE_TYPE_SEQWRITE_PREF} THEN 1
    ELSE IF ~(r.flags \subseteq 1..ZBC_NR_ZONE_TYPES) THEN 2
    ELSE IF r.number # rno THEN 3
    ELSE IF r.number >= d.nr_realms THEN 4
    ELSE IF dom_id < 0 THEN 5
    ELSE IF d.domains[dom_id].type # r.type THEN 6
    ELSE checked([zt \in 1..ZBC_NR_ZONE_TYPES |->
                     zbc_check_realm_item(d, r, zt)])

\* x is zero or not a power of two.
zbc_not_pow2(x) == x = 0 \/ \A k \in 0..30 : x # 2 ^ k

\* Result: .failed and .d, the handle as far as the checks initialised it.
zbc_check_meta_core_zd(d, meta) ==
    LET feat == zbc_get_dev_features(meta.dev_type, meta.dev_model)
        meta_size == zbc_meta_size(meta.nr_realms, meta.nr_zones)
        phys_capacity == (meta.bs_size - meta_size) \div meta.lba_size
        nr_realms == (phys_capacity + meta.realm_size - 1)
                         \div meta.realm_size
        logical_cmr_capacity == (phys_capacity * 100) \div meta.smr_gain
        nr_zones == (phys_capacity + logical_cmr_capacity)
                        \div meta.zone_size
        nr_conv_zones == (logical_cmr_capacity + meta.zone_size - 1)
                             \div meta.zone_size
        nr_seq_zones == (phys_capacity + meta.zone_size - 1)
                            \div meta.zone_size
        nr_cmr_realm_zones == nr_conv_zones \div nr_realms
        nr_smr_realm_zones == nr_seq_zones \div nr_realms
        d1 == [d EXCEPT !.dev_model = meta.dev_model,
                        !.meta_size = meta_size,
                        !.nr_realms = nr_realms,
                        !.nr_open_zones = meta.nr_open_zones,
                        !.nr_cmr_realm_zones = nr_cmr_realm_zones,
                        !.nr_smr_realm_zones = nr_smr_realm_zones,
                        !.nr_conv_zones = nr_cmr_realm_zones * nr_realms,
                        !.nr_seq_zones = nr_smr_realm_zones * nr_realms]
        res(f) == [failed |-> f, d |-> IF f = 0 THEN d1 ELSE d]
    IN
    IF meta.dev_type # ZBC_MT_ZONE_DOM THEN res(1)
    ELSE IF feat = zbc_dev_features THEN res(2)
    ELSE IF meta.phys_capacity # phys_capacity THEN res(3)
    ELSE IF zbc_not_pow2(meta.zone_size) THEN res(4)
    ELSE IF meta.realm_size < meta.zone_size * 2 THEN res(5)
    ELSE IF meta.smr_gain <= 100 THEN res(6)
    ELSE IF meta.realm_size > phys_capacity \div 2 THEN res(7)
    ELSE IF meta.realm_size <= meta.zone_size \/
            meta.realm_size % meta.zone_size # 0 THEN res(8)
    ELSE IF meta.nr_realms # nr_realms THEN res(9)
    ELSE IF meta.nr_open_zones >= nr_seq_zones THEN res(10)
    ELSE IF meta.nr_conv_zones # d1.nr_conv_zones \/
            meta.nr_conv_zones >= nr_zones THEN res(11)
    ELSE IF meta.nr_actv_zones = 0 THEN res(12)
    ELSE res(0)

\* zbc_map_meta(): the domain, realm and zone arrays and the zone lists are
\* the ones held in the metadata of md.
zbc_map_meta(d, md) ==
    LET E == {i \in DOMAIN md.domains : md.domains[i].end_lba = 0}
        n == IF E = {} THEN Cardinality(DOMAIN md.domains)
             ELSE CHOOSE i \in E : \A j \in E : i <= j
    IN [d EXCEPT !.meta = md.meta,
                 !.domains = md.domains,
                 !.nr_domains = IF zbc_mt_zd(d) THEN n ELSE @,
                 !.realms = md.realms, !.zones = md.zones,
                 !.imp_open_zones = md.imp_open_zones,
                 !.exp_open_zones = md.exp_open_zones,
                 !.closed_zones = md.closed_zones,
                 !.seq_active_zones = md.seq_active_zones]

\* The checks of zbc_check_meta_zd() on the zone lists, the realms and the
\* zones; d4 is the handle with the metadata mapped.
zbc_check_meta_zd_arrays(d4) ==
    IF zbc_check_zone_lists(d4) # 0 THEN [ok |-> FALSE, d |-> d4]
    ELSE IF \E i \in 0..(d4.nr_realms - 1) : zbc_check_zone_realm(d4, i) # 0
    THEN [ok |-> FALSE, d |-> d4]
    ELSE IF \E i \in 0..(d4.nr_zones - 1) : zbc_check_zone(d4, i) # 0
    THEN [ok |-> FALSE, d |-> d4]
    ELSE [ok |-> TRUE, d |-> d4]

\* The checks of zbc_check_meta_zd() on the zone count and the domains; d3
\* is the handle with its capacity calculated.
zbc_check_meta_zd_domains(meta, d3) ==
    IF meta.nr_zones # d3.nr_zones THEN [ok |-> FALSE, d |-> d3]
    ELSE IF zbc_check_zone_domains(d3) # 0 THEN [ok |-> FALSE, d |-> d3]
    ELSE zbc_check_meta_zd_arrays(zbc_init_domain_mapping(d3))

\* zbc_check_meta_zd() after the core checks, whose result is core.
zbc_check_meta_zd_core(md, core) ==
    LET meta == md.meta
        d1 == [core.d EXCEPT
                  !.phys_capacity = meta.phys_capacity,
                  !.realm_size = meta.realm_size,
                  !.lba_size = meta.lba_size,
                  !.zone_size = meta.zone_size,
                  !.wp_check = meta.wp_check,
                  !.realms_feat_set = meta.realms_feat_set,
                  !.nr_actv_zones = meta.nr_actv_zones,
                  !.smr_gain = meta.smr_gain,
                  !.nr_imp_open = md.imp_open_zones.size,
                  !.nr_exp_open = md.exp_open_zones.size]
    IN
    IF core.failed # 0 THEN [ok |-> FALSE, d |-> core.d]
    ELSE IF meta.max_activate > meta.nr_zones THEN [ok |-> FALSE, d |-> d1]
    ELSE zbc_check_meta_zd_domains(
             meta,
             zbc_calc_total_zd_capacity(zbc_map_meta(
                 [d1 EXCEPT !.max_activate = meta.max_activate], md)))

\* Result: .ok and .d, the handle as the checks initialised it; md is the
\* device whose metadata is checked.
zbc_check_meta_zd(d, md) ==
    zbc_check_meta_zd_core(md, zbc_check_meta_core_zd(d, md.meta))

\* Result: .failed and .d, the handle as far as the checks initialised it.
zbc_check_meta_core_zoned(d, meta) ==
    LET feat == zbc_get_dev_features(meta.dev_type, meta.dev_model)
        meta_size == zbc_meta_size(0, meta.nr_zones)
        phys_capacity == (meta.bs_size - meta_size) \div meta.lba_size
        nr_zones == (meta.phys_capacity + meta.zone_size - 1)
                        \div meta.zone_size
        res(f) == [failed |-> f,
                   d |-> IF f \in {1, 2} THEN d
                         ELSE [d EXCEPT !.meta_size = meta_size]]
    IN
    IF meta.dev_type # ZBC_MT_HM_ZONED /\ meta.dev_type # ZBC_MT_HA_ZONED
    THEN res(1)
    ELSE IF feat = zbc_dev_features THEN res(2)
    ELSE IF meta.phys_capacity # phys_capacity THEN res(3)
    ELSE IF zbc_not_pow2(meta.zone_size) THEN res(4)
    ELSE IF meta.nr_zones # nr_zones THEN res(5)
    ELSE IF meta.nr_conv_zones >= nr_zones THEN res(6)
    ELSE IF meta.nr_open_zones > nr_zones THEN res(7)
    ELSE res(0)

\* zbc_check_meta_zoned() after the core checks, whose result is core.
zbc_check_meta_zoned_core(md, core) ==
    LET meta == md.meta
        d2 == zbc_map_meta(
                  [core.d EXCEPT
                      !.dev_model = meta.dev_model,
                      !.phys_capacity = meta.phys_capacity,
                      !.lba_size = meta.lba_size,
                      !.zone_size = meta.zone_size,
                      !.wp_check = meta.wp_check,
                      !.nr_zones = meta.nr_zones,
                      !.nr_conv_zones = meta.nr_conv_zones,
                      !.nr_open_zones = meta.nr_open_zones,
                      !.nr_imp_open = md.imp_open_zones.size,
                      !.nr_exp_open = md.exp_open_zones.size,
                      !.logical_capacity = meta.nr_zones * meta.zone_size],
                  md)
    IN
    IF core.failed # 0 THEN [ok |-> FALSE, d |-> core.d]
    ELSE IF zbc_check_zone_lists(d2) # 0 THEN [ok |-> FALSE, d |-> d2]
    ELSE IF \E i \in 0..(d2.nr_zones - 1) : zbc_check_zone(d2, i) # 0
    THEN [ok |-> FALSE, d |-> d2]
    ELSE [ok |-> TRUE, d |-> d2]

zbc_check_meta_zoned(d, md) ==
    zbc_check_meta_zoned_core(md, zbc_check_meta_core_zoned(d, md.meta))

\* Non-zoned devices are not part of the model: their check is the default
\* branch.
zbc_check_meta(d, md) ==
    IF d.dev_type \in {ZBC_MT_HM_ZONED, ZBC_MT_HA_ZONED}
    THEN zbc_check_meta_zoned(d, md)
    ELSE IF d.dev_type = ZBC_MT_ZONE_DOM
    THEN zbc_check_meta_zd(d, md)
    ELSE [ok |-> FALSE, d |-> d]

\* d is the handle of the device being opened, md the device that wrote the
\* backstore file; st_size is the size of the file.
zbc_dev_check_meta(d, md, st_size) ==
    LET meta == md.meta IN
    IF meta.bs_size # st_size THEN [ok |-> FALSE, d |-> d]
    ELSE IF ~meta.magic THEN [ok |-> FALSE, d |-> d]
    ELSE IF d.cfg # meta.cfg_str THEN [ok |-> FALSE, d |-> d]
    ELSE IF meta.lba_size # 512 /\ meta.lba_size # 4096
    THEN [ok |-> FALSE, d |-> d]
    ELSE zbc_check_meta([d EXCEPT !.dev_type = meta.dev_type], md)

(***************************************************************************)
(* Device construction (zbc_open / zbc_open_backstore on a new backstore)  *)
(***************************************************************************)
\* Bound on the number of operations (commands and reopens, counted by
\* nr_ops) on a Zone Domains device; a zoned device, with its smaller
\* command set, takes one more.
MaxCmds == 2

CmdBound(d) == IF d.dev_type = ZBC_MT_ZONE_DOM THEN MaxCmds ELSE MaxCmds + 1

\* Bound on the zone count field of a ZBC OUT command.
MaxCount == 2

\* The calloc()-ed device handle, before the backstore is formatted.
zbc_dev(cfg) ==
    [cfg |-> cfg, ok |-> TRUE, dev_type |-> 0, dev_model |-> 0,
     lba_size |-> 0, phys_capacity |-> 0, zone_size |-> 0, realm_size |-> 0,
     smr_gain |-> 0, nr_realms |-> 0, logical_smr_capacity |-> 0,
     logical_cmr_capacity |-> 0, logical_capacity |-> 0,
     nr_conv_zones |-> 0, nr_seq_zones |-> 0, nr_cmr_realm_zones |-> 0,
     nr_smr_realm_zones |-> 0, nr_actv_zones |-> 0, nr_zones |-> 0,
     nr_open_zones |-> 0, nr_imp_open |-> 0, nr_exp_open |-> 0,
     nr_empty_zones |-> 0, max_activate |-> 0, realms_feat_set |-> FALSE,
     wp_check |-> 0, meta_size |-> 0, bs_size |-> 0, st_size |-> 0,
     nr_domains |-> 0,
     domains |-> << >>, realms |-> << >>, zones |-> << >>,
     imp_open_zones |-> zbc_init_zone_list,
     exp_open_zones |-> zbc_init_zone_list,
     closed_zones |-> zbc_init_zone_list,
     seq_active_zones |-> zbc_init_zone_list,
     cmr_nr_zones_to_smr |-> << >>, smr_nr_zones_to_cmr |-> << >>,
     zone_type_to_dom |-> [t \in 1..4 |-> -1],
     meta |-> zbc_meta,
     stats |-> [nr_cdb_cmds |-> 0, nr_nh_cmds |-> 0, failed_exp_opens |-> 0,
                read_rule_fails |-> 0, write_rule_fails |-> 0,
                max_open_zones |-> 0, max_exp_open_seq_zones |-> 0,
                max_imp_open_seq_zones |-> 0, min_empty_zones |-> 0]]

zbc_count_empty_zones(d) ==
    LET n == Cardinality({i \in 0..(d.nr_zones - 1) :
                              zbc_zone_empty(d.zones[i])})
    IN [d EXCEPT !.nr_empty_zones = n, !.stats.min_empty_zones = n]

\* A new backstore file: the metadata check fails and the file is formatted
\* from the configuration string.
zbc_open_backstore(cfg) ==
    zbc_count_empty_zones(
        zbc_format_meta([zbc_dev(cfg) EXCEPT !.dev_type = cfg.dev_type]))

RECURSIVE zbc_init_meta_loop(_, _)
zbc_init_meta_loop(d, i) ==
    IF i >= d.nr_zones THEN d
    ELSE zbc_init_meta_loop(__zbc_close_zone(d, i), i + 1)

\* d is the handle the metadata check initialised, md the device that wrote
\* the backstore file.
zbc_init_meta(d, md) ==
    [zbc_init_meta_loop(zbc_map_meta(d, md), 0) EXCEPT
        !.nr_imp_open = 0, !.nr_exp_open = 0]

\* zbc_open_backstore() after the metadata check of the file, whose result
\* is chk: a backstore with invalid metadata is formatted, with the device
\* type and model the check found if they are known ones ("mutating") and
\* from the configuration string otherwise.
zbc_open_checked(md, chk) ==
    LET d == chk.d
        mutate == zbc_get_dev_features(d.dev_type, d.dev_model)
                      # zbc_dev_features
    IN IF ~chk.ok
       THEN [zbc_format_meta(IF mutate
                             THEN [d EXCEPT !.cfg.mutating = TRUE]
                             ELSE [d EXCEPT !.dev_type = md.cfg.dev_type])
                EXCEPT !.cfg.mutating = IF mutate THEN FALSE ELSE @]
       ELSE zbc_init_meta(d, md)

\* zbc_close() followed by zbc_open() on the backstore file md has written:
\* a new handle, and the file is used as it is when its metadata is valid.
zbc_open(md) ==
    LET cfg == md.cfg
        h == [zbc_dev(cfg) EXCEPT !.st_size = md.st_size]
    IN zbc_count_empty_zones(
           zbc_open_checked(md, zbc_dev_check_meta(h, md, md.st_size)))

\* The configuration strings the device can be created with.
Configs ==
    { zbc_dev_config @@ [dev_type |-> c[1][1], dev_model |-> c[1][2],
                         realms_feat_set |-> c[2], mutating |-> FALSE] :
        c \in { x \in DevProfiles \X BOOLEAN :
                   x[1][2] = ZBC_MO_ZD_SOBR_EMPTY \/ x[2] } }

\* The framework's delivery of commands to the device, with nothing
\* delivered yet: the commands delivered so far, those of them waiting in
\* the ring, the handler calls in progress, and the commands completed,
\* oldest first.
tcmur_idle ==
    [issued |-> << >>, queue |-> << >>, running |-> << >>, done |-> << >>]

\* Response to the last command: status and, for ZONE ACTIVATE / QUERY,
\* the returned header and activation descriptors.
zbc_rsp(ret) == [ret |-> ret, hdr |-> << >>, desc |-> << >>]

Init ==
    /\ \E cfg \in Configs : zdev = zbc_open_backstore(cfg)
    /\ rsp = zbc_rsp(TCMU_STS_OK)
    /\ nr_ops = 0
    /\ fw = tcmur_idle

(***************************************************************************)
(* Commands                                                                *)
(***************************************************************************)
\* Every LBA of the device and the first one past its end.
Lbas == 0..zdev.logical_capacity

_zbc_handle_cmd(d) == [d EXCEPT !.stats.nr_cdb_cmds = @ + 1]

zbc_scsi_out(sa, lba, count, all) ==
    /\ nr_ops < CmdBound(zdev)
    /\ nr_ops' = nr_ops + 1
    /\ UNCHANGED fw
    /\ \E oob \in OobDomain(zdev, lba, count) :
         LET d == _zbc_handle_cmd(zdev)
             done(r) == /\ zdev' = r.d
                        /\ rsp' = zbc_rsp(r.ret)
         IN done(IF zbc_mt_zoned(d)
                 THEN zbc_out_zone(d, lba, count, sa, all, oob)
                 ELSE [d |-> d,
                       ret |-> zbc_set_sense("ILLEGAL_REQUEST",
                                             "ASC_INVALID_FIELD_IN_CDB")])

\* ZBC OUT inputs: every zone start LBA, one LBA inside a zone and the
\* first LBA past the end; the ALL bit with and without a count.
ZoneOutArgs ==
    { <<lba, count, FALSE>> :
        lba \in {l \in Lbas : l % zdev.zone_size = 0 \/ l = 1},
        count \in 0..MaxCount }
    \cup { <<0, count, TRUE>> : count \in 0..1 }

CloseZone ==
    \E a \in ZoneOutArgs : zbc_scsi_out("ZBC_SA_CLOSE_ZONE", a[1], a[2], a[3])

FinishZone ==
    \E a \in ZoneOutArgs : zbc_scsi_out("ZBC_SA_FINISH_ZONE", a[1], a[2], a[3])

OpenZone ==
    \E a \in ZoneOutArgs : zbc_scsi_out("ZBC_SA_OPEN_ZONE", a[1], a[2], a[3])

ResetWp ==
    \E a \in ZoneOutArgs : zbc_scsi_out("ZBC_SA_RESET_WP", a[1], a[2], a[3])

SequentializeZone ==
    \E a \in ZoneOutArgs :
        zbc_scsi_out("ZBC_SA_SEQUENTIALIZE_ZONE", a[1], a[2], a[3])

\* Bound on the transfer length of a read or write, in LBAs.
MaxLen == 3

zbc_scsi_read(lba, len) ==
    /\ nr_ops < CmdBound(zdev)
    /\ nr_ops' = nr_ops + 1
    /\ UNCHANGED fw
    /\ LET done(r) == /\ zdev' = r.d
                      /\ rsp' = zbc_rsp(r.ret)
       IN done(zbc_read_zoned(_zbc_handle_cmd(zdev), lba, len))

zbc_scsi_write(lba, len) ==
    /\ nr_ops < CmdBound(zdev)
    /\ nr_ops' = nr_ops + 1
    /\ UNCHANGED fw
    /\ LET done(r) == /\ zdev' = r.d
                      /\ rsp' = zbc_rsp(r.ret)
       IN done(zbc_write_zoned(_zbc_handle_cmd(zdev), lba, len))

Read == \E lba \in Lbas, len \in 0..MaxLen : zbc_scsi_read(lba, len)

Write == \E lba \in Lbas, len \in 0..MaxLen : zbc_scsi_write(lba, len)

\* Bound on the zone count of a ZONE ACTIVATE / ZONE QUERY with NOZSRC set.
MaxActv == 3

\* Bound on the number of descriptors the allocation length has room for.
MaxDesc == 4

\* The words that can lie past the end of cmr_nr_zones_to_smr[]: read when a
\* command names a CMR domain and more zones than a realm has CMR zones.
OobWords(d, a) ==
    LET nr_zones == IF a.nozsrc THEN a.nzsrc ELSE d.nr_actv_zones IN
    IF ~a.all /\ nr_zones > d.nr_cmr_realm_zones /\
       a.domain_id < d.nr_domains /\ zbc_mt_zd(d) /\
       ~zbc_smr_domain(d.domains[a.domain_id]) /\
       \E i \in 0..(d.nr_realms - 1) : zbc_realm_seq(d.realms[i])
    THEN 0..(d.nr_smr_realm_zones + 1)
    ELSE {0}

\* Result of the ZONE ACTIVATE(16) / ZONE QUERY(16) cases of zbc_scsi_in().
zbc_scsi_in(d, op, a, oob) ==
    IF zbc_mt_zd(d)
    THEN zbc_scsi_zone_activate16(d, a.all, a.domain_id, a.start_lba, a.len,
                                  a.nozsrc, a.nzsrc,
                                  op = "ZBC_SA_ZONE_QUERY_16", oob)
    ELSE [d |-> d,
          ret |-> zbc_set_sense("ILLEGAL_REQUEST", "ASC_INVALID_FIELD_IN_CDB"),
          hdr |-> << >>, desc |-> << >>]

ZbcIn(op, a) ==
    /\ nr_ops < CmdBound(zdev)
    /\ nr_ops' = nr_ops + 1
    /\ UNCHANGED fw
    /\ \E oob \in OobWords(zdev, a) :
         LET done(r) ==
                 /\ zdev' = r.d
                 /\ rsp' = [ret |-> r.ret, hdr |-> r.hdr, desc |-> r.desc]
         IN done(zbc_scsi_in(_zbc_handle_cmd(zdev), op, a, oob))

\* ZONE ACTIVATE / ZONE QUERY inputs: a zone range in a domain with the zone
\* count in the CDB, the first zone with the FSNOZ count, and the ALL bit
\* with every domain ID up to the first invalid one and every allocation
\* length.
ActvArgs ==
    LET full == ZBC_ACTV_RES_HEADER_SIZE +
                MaxDesc * ZBC_ACTV_RES_DESCRIPTOR_SIZE
        lens == {ZBC_ACTV_RES_HEADER_SIZE - 1} \cup
                {ZBC_ACTV_RES_HEADER_SIZE + k * ZBC_ACTV_RES_DESCRIPTOR_SIZE :
                     k \in 0..MaxDesc}
        arg(all, dom, lba, len, nozsrc, nzsrc) ==
            [all |-> all, domain_id |-> dom, start_lba |-> lba, len |-> len,
             nozsrc |-> nozsrc, nzsrc |-> nzsrc]
    IN IF ~zbc_mt_zd(zdev) THEN {arg(FALSE, 0, 0, full, FALSE, 0)}
       ELSE { arg(FALSE, dom, lba, full, TRUE, n) :
                 dom \in 0..(zdev.nr_domains - 1),
                 lba \in {l \in Lbas : l % zdev.zone_size = 0 \/ l = 1},
                 n \in 0..MaxActv }
            \cup { arg(FALSE, dom, 0, full, FALSE, 0) :
                      dom \in 0..(zdev.nr_domains - 1) }
            \cup { arg(TRUE, dom, 0, len, FALSE, 0) :
                      dom \in 0..zdev.nr_domains, len \in lens }

ZoneActivate == \E a \in ActvArgs : ZbcIn("ZBC_SA_ZONE_ACTIVATE_16", a)

ZoneQuery == \E a \in ActvArgs : ZbcIn("ZBC_SA_ZONE_QUERY_16", a)

TCMU_STS_NOT_HANDLED == <<"NO_SENSE", "TCMU_STS_NOT_HANDLED">>

\* Result of the ZBC_ZONE_ACTIVATE_32 case of _zbc_handle_cmd(); c is the
\* additional CDB length with the other CDB fields.
zbc_handle_activate32(d, sa, c, oob) ==
    IF zbc_mt_zd(d)
    THEN zbc_scsi_zone_activate32(d, c[1], sa, c[2].all, c[2].domain_id,
                                  c[2].start_lba, c[2].len, c[2].nozsrc,
                                  c[2].nzsrc, oob)
    ELSE [d |-> [d EXCEPT !.stats.nr_nh_cmds = @ + 1],
          ret |-> TCMU_STS_NOT_HANDLED, hdr |-> << >>, desc |-> << >>]

ZoneActivate32Cmd(sa, c) ==
    /\ nr_ops < CmdBound(zdev)
    /\ nr_ops' = nr_ops + 1
    /\ UNCHANGED fw
    /\ \E oob \in OobWords(zdev, c[2]) :
         LET done(r) ==
                 /\ zdev' = r.d
                 /\ rsp' = [ret |-> r.ret, hdr |-> r.hdr, desc |-> r.desc]
         IN done(zbc_handle_activate32(_zbc_handle_cmd(zdev), sa, c, oob))

\* Inputs of the 32-byte CDB, whose zone count and domain ID fields are
\* wider: the largest zone count, the full allocation length, and one CDB
\* with a wrong additional length.
ActvArgs32 ==
    { <<24, a>> : a \in { x \in ActvArgs :
                             /\ x.len >= ZBC_ACTV_RES_HEADER_SIZE +
                                         MaxDesc * ZBC_ACTV_RES_DESCRIPTOR_SIZE
                             /\ x.nozsrc => x.nzsrc = MaxActv } }
    \cup { <<0, a>> : a \in { x \in ActvArgs : x.all /\ x.domain_id = 0 /\
                                x.len < ZBC_ACTV_RES_HEADER_SIZE } }

ZoneActivate32 ==
    \E c \in ActvArgs32 : ZoneActivate32Cmd("ZBC_SA_ZONE_ACTIVATE_32", c)

ZoneQuery32 ==
    \E c \in ActvArgs32 : ZoneActivate32Cmd("ZBC_SA_ZONE_QUERY_32", c)

\* The handler closes the device and opens it again on the same backstore.
Reopen ==
    /\ nr_ops < CmdBound(zdev)
    /\ nr_ops' = nr_ops + 1
    /\ UNCHANGED fw
    /\ zdev' = zbc_open(zdev)
    /\ rsp' = zbc_rsp(TCMU_STS_OK)

Next ==
    \/ Reopen
    \/ CloseZone
    \/ FinishZone
    \/ OpenZone
    \/ ResetWp
    \/ SequentializeZone
    \/ Read
    \/ Write
    \/ ZoneActivate
    \/ ZoneQuery
    \/ ZoneActivate32
    \/ ZoneQuery32

Spec == Init /\ [][Next]_vars

(***************************************************************************)
(* A Zone Domains device with three realms, of which two can be activated  *)
(* as SWR or as SWP zones, driven by whole-realm activations and one-LBA   *)
(* writes: the smallest device that has SWR and SWP zones in use at the    *)
(* same time.                                                              *)
(***************************************************************************)
\* Bound on the number of commands issued to the three-realm device.
MaxMixedCmds == 5

MixedConfig ==
    [zbc_dev_config EXCEPT !.phys_capacity = 3 * zbc_dev_config.realm_size]
        @@ [dev_type |-> ZBC_MT_ZONE_DOM, dev_model |-> ZBC_MO_ZD_1_CMR_BOT,
            realms_feat_set |-> TRUE, mutating |-> FALSE]

MixedInit ==
    /\ zdev = zbc_open_backstore(MixedConfig)
    /\ rsp = zbc_rsp(TCMU_STS_OK)
    /\ nr_ops = 0
    /\ fw = tcmur_idle

\* ZONE ACTIVATE(16) of the realm that starts at a conventional zone, as
\* the zones of domain dom, with the FSNOZ zone count.
MixedActivate ==
    /\ nr_ops < MaxMixedCmds
    /\ nr_ops' = nr_ops + 1
    /\ UNCHANGED fw
    /\ \E i \in DOMAIN zdev.realms, dom \in 1..(zdev.nr_domains - 1) :
         LET a == [all |-> FALSE, domain_id |-> dom,
                   start_lba |->
                       zdev.realms[i].ri[ZBC_ZONE_TYPE_CONVENTIONAL].start_lba,
                   len |-> ZBC_ACTV_RES_HEADER_SIZE +
                           MaxDesc * ZBC_ACTV_RES_DESCRIPTOR_SIZE,
                   nozsrc |-> FALSE, nzsrc |-> 0]
             done(r) ==
                 /\ zdev' = r.d
                 /\ rsp' = [ret |-> r.ret, hdr |-> r.hdr, desc |-> r.desc]
         IN done(zbc_scsi_in(_zbc_handle_cmd(zdev),
                             "ZBC_SA_ZONE_ACTIVATE_16", a, 0))

\* WRITE of one LBA at the start or at the write pointer of a zone.
MixedWrite ==
    /\ nr_ops < MaxMixedCmds
    /\ nr_ops' = nr_ops + 1
    /\ UNCHANGED fw
    /\ \E i \in DOMAIN zdev.zones, at_wp \in BOOLEAN :
         LET done(r) == /\ zdev' = r.d
                        /\ rsp' = zbc_rsp(r.ret)
         IN /\ at_wp => zdev.zones[i].wp # ZBC_NO_WP
            /\ done(zbc_write_zoned(_zbc_handle_cmd(zdev),
                                    IF at_wp THEN zdev.zones[i].wp
                                    ELSE zdev.zones[i].start, 1))

MixedNext ==
    \/ MixedActivate
    \/ MixedWrite

SpecMixed == MixedInit /\ [][MixedNext]_vars

(***************************************************************************)
(* A freshly formatted host-managed device that is filled with writes of   *)
(* one whole zone each, in ascending zone order from the first SWR zone.   *)
(***************************************************************************)
\* Bound on the number of whole-zone writes issued to the device.
MaxSeqWrites == 6

\* Host-managed configurations of 4 to 6 zones, 0 to 3 of them
\* conventional, with one or two open zones.
SeqConfigs ==
    { [zbc_dev_config EXCEPT !.phys_capacity = nz * zbc_dev_config.zone_size,
                             !.conv_num = cn, !.open_num = on]
          @@ [dev_type |-> ZBC_MT_HM_ZONED, dev_model |-> ZBC_MO_SMR_NO_CMR,
              realms_feat_set |-> TRUE, mutating |-> FALSE] :
        nz \in 4..6, cn \in {ZBC_CONF_DEFAULT_CONV_NUM} \cup 0..3,
        on \in 1..2 }

SeqInit ==
    /\ \E cfg \in SeqConfigs : zdev = zbc_open_backstore(cfg)
    /\ rsp = zbc_rsp(TCMU_STS_OK)
    /\ nr_ops = 0
    /\ fw = tcmur_idle

\* The zone the next whole-zone write goes to: nr_ops counts the writes
\* issued so far.
SeqZone == zdev.nr_conv_zones + nr_ops

\* WRITE of all the LBAs of the next SWR zone.
SeqWrite ==
    /\ nr_ops < MaxSeqWrites
    /\ SeqZone < zdev.nr_zones
    /\ nr_ops' = nr_ops + 1
    /\ UNCHANGED fw
    /\ LET done(r) == /\ zdev' = r.d
                      /\ rsp' = zbc_rsp(r.ret)
       IN done(zbc_write_zoned(_zbc_handle_cmd(zdev),
                               zdev.zones[SeqZone].start,
                               zdev.zones[SeqZone].len))

SeqNext == SeqWrite

SpecSeq == SeqInit /\ [][SeqNext]_vars

(***************************************************************************)
(* The framework's delivery of commands to the handler of one zoned        *)
(* device.  The framework queues the commands of the device in the order   *)
(* they arrive and calls handle_cmd for them; a handler that registers     *)
(* with nr_threads = 0 is called from the one command-processing loop of   *)
(* the device, which takes the next command when the call has returned.    *)
(* A handler call reads the metadata when it starts and has written it     *)
(* when it returns.                                                        *)
(***************************************************************************)
\* Bound on the number of commands delivered to the device.
MaxFwCmds == 3

\* struct tcmur_handler dhsmr_handler registered with worker threads.
dhsmr_handler_threaded ==
    [name |-> "Zone Domains Emulation Handler", nr_threads |-> 2]

\* struct tcmur_handler dhsmr_handler.
dhsmr_handler ==
    [name |-> "Zone Domains Emulation Handler", nr_threads |-> 0]

\* zbc_handle_cmd() for a WRITE and for the ZBC OUT zone operations on one
\* zone: the call returns when the command has been carried out.
zbc_handle_cmd(d, cmd) ==
    IF cmd.op = "WRITE"
    THEN zbc_write_zoned(_zbc_handle_cmd(d), cmd.lba, cmd.len)
    ELSE zbc_out_zone(_zbc_handle_cmd(d), cmd.lba, 0, cmd.op, FALSE, -1)

\* The commands an initiator sends: one-LBA writes to the first two
\* sequential zones and the zone operations on the first of them.
FwCmds ==
    LET z == zdev.zones[zdev.nr_conv_zones] IN
    { [op |-> "WRITE", lba |-> l, len |-> 1] :
          l \in {z.start, z.start + 1, z.start + z.len} }
    \cup { [op |-> o, lba |-> z.start, len |-> 0] :
              o \in {"ZBC_SA_OPEN_ZONE", "ZBC_SA_CLOSE_ZONE",
                     "ZBC_SA_FINISH_ZONE", "ZBC_SA_RESET_WP"} }

FwInit ==
    /\ \E cfg \in {c \in Configs : c.dev_type \in {ZBC_MT_HM_ZONED,
                                                   ZBC_MT_HA_ZONED}} :
           zdev = zbc_open_backstore(cfg)
    /\ rsp = zbc_rsp(TCMU_STS_OK)
    /\ nr_ops = 0
    /\ fw = tcmur_idle

\* A command for the device arrives in the ring.
FwDeliver ==
    /\ nr_ops < MaxFwCmds
    /\ nr_ops' = nr_ops + 1
    /\ \E cmd \in FwCmds :
           fw' = [fw EXCEPT !.issued = Append(@, cmd),
                            !.queue = Append(@, cmd)]
    /\ UNCHANGED <<zdev, rsp>>

\* The framework takes the oldest waiting command and calls handle_cmd:
\* from the command-processing loop itself when the handler has no worker
\* threads, from a free worker thread otherwise.
FwCall ==
    /\ fw.queue # << >>
    /\ IF dhsmr_handler.nr_threads = 0 THEN fw.running = << >>
       ELSE Len(fw.running) < dhsmr_handler.nr_threads
    /\ fw' = [fw EXCEPT !.queue = Tail(@),
                        !.running = Append(@, [cmd |-> Head(fw.queue),
                                               seen |-> zdev])]
    /\ UNCHANGED <<zdev, rsp, nr_ops>>

\* A handle_cmd call returns: the command has acted on the metadata it
\* has read and its status is the response.
FwReturn ==
    /\ \E k \in DOMAIN fw.running :
         LET c == fw.running[k]
             done(r) ==
                 /\ zdev' = r.d
                 /\ rsp' = zbc_rsp(r.ret)
         IN /\ done(zbc_handle_cmd(c.seen, c.cmd))
            /\ fw' = [fw EXCEPT
                         !.running = SubSeq(@, 1, k - 1)
                                         \o SubSeq(@, k + 1, Len(@)),
                         !.done = Append(@, c.cmd)]
    /\ UNCHANGED nr_ops

FwNext ==
    \/ FwDeliver
    \/ FwCall
    \/ FwReturn

SpecFw == FwInit /\ [][FwNext]_vars


(***************************************************************************)
(* Properties                                                              *)
(***************************************************************************)
ZoneLists ==
    {"imp_open_zones", "exp_open_zones", "closed_zones", "seq_active_zones"}

\* The zones reached from zone z by following the next links, at most n
\* of them.
RECURSIVE LinkedFrom(_, _, _)
LinkedFrom(d, z, n) ==
    IF n = 0 \/ z = ZBC_LIST_NIL \/ z \notin DOMAIN d.zones THEN {}
    ELSE {z} \cup LinkedFrom(d, d.zones[z].next, n - 1)

\* The lists of device d that hold zone i.
ListsOf(d, i) ==
    {l \in ZoneLists :
        i \in LinkedFrom(d, d[l].head, Cardinality(DOMAIN d.zones))}

\* The list the condition of zone z belongs to, if any.
ListFor(z) ==
    IF zbc_zone_imp_open(z) THEN {"imp_open_zones"}
    ELSE IF zbc_zone_exp_open(z) THEN {"exp_open_zones"}
    ELSE IF zbc_zone_closed(z) THEN {"closed_zones"}
    ELSE IF (zbc_zone_seq_req(z) \/ zbc_zone_seq_pref(z) \/ zbc_zone_sobr(z))
            /\ (zbc_zone_empty(z) \/ zbc_zone_full(z))
    THEN {"seq_active_zones"}
    ELSE {}

\* C1: a zone is linked into a zone list iff it is ImpOpen, ExpOpen or
\* Closed, or it is an SWR, SWP or SOBR zone that is Empty or Full; and a
\* linked zone is in exactly the one list that matches its condition.
C1_ZoneMembership ==
    \A i \in DOMAIN zdev.zones :
        /\ ListsOf(zdev, i) = ListFor(zdev.zones[i])
        /\ zbc_zone_not_in_list(zdev.zones[i]) <=> ListFor(zdev.zones[i]) = {}

C1_Witness ==
    /\ zdev.closed_zones.size > 0
    /\ zdev.imp_open_zones.size > 0
    /\ zdev.seq_active_zones.size > 0
    /\ C1_ZoneMembership

\* C2: Empty implies wp = start; Full on an SWR or SWP zone implies
\* wp = start + len; Full on a SOBR zone, NotWP, Inactive, ReadOnly, Offline
\* and every Gap zone imply wp is the no-write-pointer value; ImpOpen
\* implies start <= wp < start + len.
C2_WritePointer ==
    \A i \in DOMAIN zdev.zones :
        LET z == zdev.zones[i] IN
        /\ zbc_zone_empty(z) => z.wp = z.start
        /\ zbc_zone_full(z) /\ (zbc_zone_seq_req(z) \/ zbc_zone_seq_pref(z))
               => z.wp = z.start + z.len
        /\ \/ zbc_zone_full(z) /\ zbc_zone_sobr(z)
           \/ zbc_zone_not_wp(z) \/ zbc_zone_inactive(z)
           \/ zbc_zone_rdonly(z) \/ zbc_zone_offline(z)
           \/ zbc_zone_gap(z)
               => z.wp = ZBC_NO_WP
        /\ zbc_zone_imp_open(z) => z.start <= z.wp /\ z.wp < z.start + z.len

C2_Witness ==
    /\ \E i \in DOMAIN zdev.zones :
           zbc_zone_imp_open(zdev.zones[i]) /\
           zdev.zones[i].wp > zdev.zones[i].start
    /\ \E i \in DOMAIN zdev.zones :
           zbc_zone_full(zdev.zones[i]) /\ zbc_zone_seq(zdev.zones[i])
    /\ C2_WritePointer

\* C3: the number of SWR zones that are ImpOpen or ExpOpen never exceeds
\* the maximum number of open zones.
C3_OpenBudget ==
    Cardinality({i \in DOMAIN zdev.zones :
                    zbc_zone_seq_req(zdev.zones[i]) /\
                    zbc_zone_is_open(zdev.zones[i])}) <= zdev.nr_open_zones

\* The budget is used up and one more zone was written: the oldest
\* implicitly open zone was closed to stay within it.
C3_Witness ==
    /\ zdev.nr_imp_open + zdev.nr_exp_open = zdev.nr_open_zones
    /\ \E i \in DOMAIN zdev.zones :
           zbc_zone_seq_req(zdev.zones[i]) /\ zbc_zone_closed(zdev.zones[i])
    /\ C3_OpenBudget


\* The zones of the slot of realm r for zone type zt.
SlotZones(r, zt) ==
    IF r.ri[zt].length = 0 THEN {}
    ELSE r.ri[zt].start_zone..(r.ri[zt].start_zone + r.ri[zt].length - 1)

SameZoneState(d, e) ==
    /\ DOMAIN d.zones = DOMAIN e.zones
    /\ \A i \in DOMAIN d.zones :
           /\ d.zones[i].cond = e.zones[i].cond
           /\ d.zones[i].wp = e.zones[i].wp
           /\ d.zones[i].prev = e.zones[i].prev
           /\ d.zones[i].next = e.zones[i].next
    /\ \A l \in ZoneLists : d[l] = e[l]
    /\ DOMAIN d.realms = DOMAIN e.realms
    /\ \A i \in DOMAIN d.realms : d.realms[i].type = e.realms[i].type

\* C5: a ZONE ACTIVATE that does not report the range activated, because a
\* realm of the range failed its checks, changes no zone condition, write
\* pointer, list membership or realm type.
C5_ActivateAllOrNothing ==
    \A a \in ActvArgs :
        \A oob \in OobWords(zdev, a) :
            LET r == zbc_scsi_in(_zbc_handle_cmd(zdev),
                                 "ZBC_SA_ZONE_ACTIVATE_16", a, oob)
            IN (r.ret = TCMU_STS_OK /\
                r.hdr.status % 2 # ZBC_ACTV_STAT_ACTIVATED)
                   => SameZoneState(zdev, r.d)

\* C6: ZONE QUERY, in its 16-byte and 32-byte forms, leaves every zone
\* condition, write pointer and list link, every realm type and the open
\* and empty zone counters as they were.
C6_QueryChangesNothing ==
    LET same(e) == /\ SameZoneState(zdev, e)
                   /\ e.nr_imp_open = zdev.nr_imp_open
                   /\ e.nr_exp_open = zdev.nr_exp_open
                   /\ e.nr_empty_zones = zdev.nr_empty_zones
    IN /\ \A a \in ActvArgs :
              \A oob \in OobWords(zdev, a) :
                  same(zbc_scsi_in(_zbc_handle_cmd(zdev),
                                   "ZBC_SA_ZONE_QUERY_16", a, oob).d)
       /\ \A c \in ActvArgs32 :
              \A oob \in OobWords(zdev, c[2]) :
                  same(zbc_handle_activate32(_zbc_handle_cmd(zdev),
                                             "ZBC_SA_ZONE_QUERY_32", c,
                                             oob).d)

\* The last command was a ZONE QUERY that returned descriptors, on a device
\* with an open zone.
C6_Witness ==
    /\ Len(rsp.desc) > 0
    /\ rsp.hdr.status % 2 # ZBC_ACTV_STAT_ACTIVATED
    /\ zdev.imp_open_zones.size > 0
    /\ C6_QueryChangesNothing

C8_MetadataValid ==
    zbc_dev_check_meta([zbc_dev(zdev.cfg) EXCEPT !.st_size = zdev.st_size],
                       zdev, zdev.st_size).ok

\* Commands were accepted that left zones closed, open and full.
C8_Witness ==
    /\ rsp.ret = TCMU_STS_OK
    /\ zdev.stats.nr_cdb_cmds > 1
    /\ zdev.closed_zones.size + zdev.imp_open_zones.size
           + zdev.exp_open_zones.size > 1
    /\ C8_MetadataValid

\* C9 as claimed: no Conventional zone and no SOBR zone is Closed, ImpOpen
\* or ExpOpen.
C9_NoOpenNonSeq ==
    \A i \in DOMAIN zdev.zones :
        zbc_zone_nseq(zdev.zones[i]) =>
            ~zbc_zone_closed(zdev.zones[i]) /\ ~zbc_zone_is_open(zdev.zones[i])

\* C9, amended: no Conventional zone is Closed, ImpOpen or ExpOpen, and no
\* SOBR zone is Closed or ExpOpen; a written SOBR zone is ImpOpen.
C9_NoOpenConvNoClosedSobr ==
    \A i \in DOMAIN zdev.zones :
        LET z == zdev.zones[i] IN
        /\ zbc_zone_conv(z) => ~zbc_zone_closed(z) /\ ~zbc_zone_is_open(z)
        /\ zbc_zone_sobr(z) => ~zbc_zone_closed(z) /\ ~zbc_zone_exp_open(z)

\* A SOBR zone is ImpOpen after two commands were accepted.
C9_Witness ==
    /\ \E i \in DOMAIN zdev.zones :
           /\ zbc_zone_sobr(zdev.zones[i])
           /\ zbc_zone_imp_open(zdev.zones[i])
    /\ rsp.ret = TCMU_STS_OK
    /\ zdev.stats.nr_cdb_cmds > 1
    /\ C9_NoOpenConvNoClosedSobr

\* The sense data of the zone protocol errors.
ZoneProtocolErrors ==
    { zbc_set_sense("ILLEGAL_REQUEST", "ASC_READ_BOUNDARY_VIOLATION"),
      zbc_set_sense("ILLEGAL_REQUEST", "ASC_WRITE_BOUNDARY_VIOLATION"),
      zbc_set_sense("ILLEGAL_REQUEST", "ASC_UNALIGNED_WRITE_COMMAND"),
      zbc_set_sense("ILLEGAL_REQUEST", "ASC_ATTEMPT_TO_READ_INVALID_DATA"),
      zbc_set_sense("DATA_PROTECT", "ASC_ZONE_IS_INACTIVE"),
      zbc_set_sense("DATA_PROTECT", "ASC_ZONE_IS_OFFLINE"),
      zbc_set_sense("DATA_PROTECT", "ASC_ZONE_IS_READ_ONLY"),
      zbc_set_sense("DATA_PROTECT", "ASC_INSUFFICIENT_ZONE_RESOURCES") }

\* C10: a command rejected with a zone protocol error leaves every zone
\* condition, write pointer and list link and every realm type as it was.
C10_RejectedChangesNothing ==
    [][rsp'.ret \in ZoneProtocolErrors => SameZoneState(zdev, zdev')]_vars

\* A command was rejected with a zone protocol error, a write among the
\* rejected ones, on a device with an open zone.
C10_Witness ==
    /\ rsp.ret \in ZoneProtocolErrors
    /\ zdev.stats.write_rule_fails > 0
    /\ zdev.imp_open_zones.size > 0

\* Bit "bit" is set in the byte "bits" of an activation results header.
ActvBit(bits, bit) == (bits \div bit) % 2 = 1

\* The header h of a ZONE ACTIVATE or ZONE QUERY that returned the
\* descriptors desc reports a failure consistently: only the five
\* precondition bits occur as error bits; with an error bit set the
\* ACTIVATED bit is clear and no descriptor follows the header; the ZIWUP
\* valid bit is set only with an error bit, ZIWUP then is an LBA of the
\* device, and it is zero otherwise.
ActvHeaderOk(d, h, desc) ==
    LET failed == h.error # 0
        activated == ActvBit(h.status, ZBC_ACTV_STAT_ACTIVATED)
        ziwup_valid == ActvBit(h.status, ZBC_ACTV_STAT_ZIWUP_VALID)
    IN /\ h.error \in 0..63
       /\ ~ActvBit(h.error, ZBC_ACTV_ERR_MULTI_TYPES)
       /\ failed => ~activated /\ desc = << >>
       /\ ziwup_valid => failed /\ h.ziwup \in 0..(d.logical_capacity - 1)
       /\ ~ziwup_valid => h.ziwup = 0

\* C11: a ZONE ACTIVATE or ZONE QUERY ends with status OK unless a CDB
\* field is invalid; an unmet activation precondition is reported in the
\* results header only: error bits set, the ACTIVATED bit clear, no
\* descriptors, and ZIWUP with its valid bit if a zone is named.  Without
\* an error bit, ZONE ACTIVATE sets the ACTIVATED bit and ZONE QUERY does
\* not.
C11_ActvFailureInHeader ==
    LET illreq == zbc_set_sense("ILLEGAL_REQUEST", "ASC_INVALID_FIELD_IN_CDB")
        ok(r, dry_run) ==
            /\ r.ret \in {TCMU_STS_OK, illreq}
            /\ r.ret = illreq => r.hdr = << >>
            /\ r.ret = TCMU_STS_OK =>
                   /\ ActvHeaderOk(zdev, r.hdr, r.desc)
                   /\ r.hdr.error = 0 =>
                          (ActvBit(r.hdr.status, ZBC_ACTV_STAT_ACTIVATED)
                               <=> ~dry_run)
    IN /\ \A a \in ActvArgs :
              \A oob \in OobWords(zdev, a) :
                  /\ ok(zbc_scsi_in(_zbc_handle_cmd(zdev),
                                    "ZBC_SA_ZONE_ACTIVATE_16", a, oob), FALSE)
                  /\ ok(zbc_scsi_in(_zbc_handle_cmd(zdev),
                                    "ZBC_SA_ZONE_QUERY_16", a, oob), TRUE)
       /\ rsp.hdr # << >> =>
              rsp.ret = TCMU_STS_OK /\ ActvHeaderOk(zdev, rsp.hdr, rsp.desc)

\* The last command ended with status OK and a header that reports a zone
\* of the range as not empty, naming the zone, on a device with a written
\* zone.
C11_Witness ==
    /\ rsp.ret = TCMU_STS_OK
    /\ rsp.hdr # << >>
    /\ ActvBit(rsp.hdr.error, ZBC_ACTV_ERR_NOT_EMPTY)
    /\ ActvBit(rsp.hdr.status, ZBC_ACTV_STAT_ZIWUP_VALID)
    /\ ~ActvBit(rsp.hdr.status, ZBC_ACTV_STAT_ACTIVATED)
    /\ zdev.imp_open_zones.size > 0
    /\ C11_ActvFailureInHeader

\* The SWR zones of device d that are open, explicitly or implicitly.
SwrOpen(d, explicit) ==
    {i \in DOMAIN d.zones :
        /\ zbc_zone_seq_req(d.zones[i])
        /\ IF explicit THEN zbc_zone_exp_open(d.zones[i])
           ELSE zbc_zone_imp_open(d.zones[i])}

\* OPEN ZONE of the one zone i of the device, and what it must do when it
\* runs out of zone resources: fail, count one failed explicit open and
\* change no zone.
OpenZoneFails(i) ==
    LET r == zbc_out_zone(_zbc_handle_cmd(zdev), zdev.zones[i].start, 0,
                          "ZBC_SA_OPEN_ZONE", FALSE, -1)
    IN /\ r.ret = zbc_set_sense("DATA_PROTECT",
                                "ASC_INSUFFICIENT_ZONE_RESOURCES")
       /\ r.d.stats.failed_exp_opens = zdev.stats.failed_exp_opens + 1
       /\ SameZoneState(zdev, r.d)
       /\ r.d.nr_exp_open = zdev.nr_exp_open
       /\ r.d.nr_imp_open = zdev.nr_imp_open

\* C12 as claimed: with as many SWR zones explicitly open as the device
\* allows open zones, OPEN ZONE of any further SWR zone fails with
\* INSUFFICIENT ZONE RESOURCES, adds one to failed_exp_opens and opens no
\* zone.
C12_OpenAnyFurtherZoneFails ==
    Cardinality(SwrOpen(zdev, TRUE)) = zdev.nr_open_zones =>
        \A i \in DOMAIN zdev.zones :
            (zbc_zone_seq_req(zdev.zones[i]) /\ i \notin SwrOpen(zdev, TRUE))
                => OpenZoneFails(i)

\* C12, amended: with as many SWR zones explicitly open as the device
\* allows open zones, OPEN ZONE of a further SWR zone that is Empty or
\* Closed fails with INSUFFICIENT ZONE RESOURCES, adds one to
\* failed_exp_opens and opens no zone.
C12_OpenBeyondBudgetFails ==
    Cardinality(SwrOpen(zdev, TRUE)) = zdev.nr_open_zones =>
        \A i \in DOMAIN zdev.zones :
            (zbc_zone_seq_req(zdev.zones[i]) /\
             (zbc_zone_empty(zdev.zones[i]) \/ zbc_zone_closed(zdev.zones[i])))
                => OpenZoneFails(i)

\* The last command was an OPEN ZONE that failed for lack of zone
\* resources, with every open zone the device allows explicitly open and
\* an Empty SWR zone left to open.
C12_Witness ==
    /\ rsp.ret = zbc_set_sense("DATA_PROTECT",
                               "ASC_INSUFFICIENT_ZONE_RESOURCES")
    /\ zdev.stats.failed_exp_opens = 1
    /\ Cardinality(SwrOpen(zdev, TRUE)) = zdev.nr_open_zones
    /\ \E i \in DOMAIN zdev.zones :
           zbc_zone_seq_req(zdev.zones[i]) /\ zbc_zone_empty(zdev.zones[i])
    /\ C12_OpenBeyondBudgetFails

\* The first SWR zone of a zone list, from zone idx on: of the implicitly
\* open zones, the one opened the longest ago.
RECURSIVE FirstSwrFrom(_, _)
FirstSwrFrom(d, idx) ==
    IF idx = ZBC_LIST_NIL THEN NULL
    ELSE IF zbc_zone_seq_req(d.zones[idx]) THEN idx
    ELSE FirstSwrFrom(d, d.zones[idx].next)

\* The zones whose condition differs between devices d and e.
CondChanged(d, e) ==
    {i \in DOMAIN d.zones : d.zones[i].cond # e.zones[i].cond}

\* The commands that open zone t of the device: OPEN ZONE of the zone, and
\* the writes at its write pointer.
OpensOf(t) ==
    {zbc_out_zone(_zbc_handle_cmd(zdev), zdev.zones[t].start, 0,
                  "ZBC_SA_OPEN_ZONE", FALSE, -1)}
    \cup {zbc_write_zoned(_zbc_handle_cmd(zdev), zdev.zones[t].wp, len) :
             len \in 0..MaxLen}

\* Every open SWR zone the device allows is open, one of them implicitly.
OpenBudgetUsed(d) ==
    /\ Cardinality(SwrOpen(d, TRUE)) + Cardinality(SwrOpen(d, FALSE))
           = d.nr_open_zones
    /\ SwrOpen(d, FALSE) # {}

\* C13: when an Empty or Closed SWR zone is opened, by OPEN ZONE or by a
\* write, with every open SWR zone the device allows open and one of them
\* implicitly, the only other zone to change condition is the implicitly
\* open SWR zone opened the longest ago, which is closed: no SWP zone, SOBR
\* zone, explicitly open zone or other implicitly open zone changes.
C13_EvictOldestImpOpen ==
    OpenBudgetUsed(zdev) =>
        \A t \in DOMAIN zdev.zones :
            (zbc_zone_seq_req(zdev.zones[t]) /\
             (zbc_zone_empty(zdev.zones[t]) \/ zbc_zone_closed(zdev.zones[t])))
                => \A r \in OpensOf(t) :
                       r.ret = TCMU_STS_OK =>
                           LET v == FirstSwrFrom(zdev, zdev.imp_open_zones.head)
                           IN /\ CondChanged(zdev, r.d) \ {t} = {v}
                              /\ r.d.zones[v].cond =
                                     IF zdev.zones[v].wp = zdev.zones[v].start
                                     THEN ZBC_ZONE_COND_EMPTY
                                     ELSE ZBC_ZONE_COND_CLOSED

\* The writes that start at the write pointer of zone t of the device and
\* end inside the zone: <<lba, len>>.
WritesAtWp(t) ==
    {w \in {zdev.zones[t].wp} \X (0..MaxLen) :
        w[1] + w[2] <= zdev.zones[t].start + zdev.zones[t].len}

ZoneOut(op, i) ==
    zbc_out_zone(_zbc_handle_cmd(zdev), zdev.zones[i].start, 0, op, FALSE, -1)

\* Device e has the zone conditions, write pointers, list links and open
\* and empty zone counters of the device.
NoZoneChange(e) ==
    /\ SameZoneState(zdev, e)
    /\ e.nr_imp_open = zdev.nr_imp_open
    /\ e.nr_exp_open = zdev.nr_exp_open
    /\ e.nr_empty_zones = zdev.nr_empty_zones

\* C15: RESET WRITE POINTER on an Empty zone, FINISH ZONE on a Full zone,
\* CLOSE ZONE on a Closed or Empty zone and OPEN ZONE on an ExpOpen zone
\* leave every zone condition, write pointer and list link and the open
\* and empty zone counters as they were.
C15_Idempotence ==
    \A i \in DOMAIN zdev.zones :
        LET z == zdev.zones[i] IN
        /\ zbc_zone_empty(z) => NoZoneChange(ZoneOut("ZBC_SA_RESET_WP", i).d)
        /\ zbc_zone_full(z) =>
               NoZoneChange(ZoneOut("ZBC_SA_FINISH_ZONE", i).d)
        /\ zbc_zone_closed(z) \/ zbc_zone_empty(z) =>
               NoZoneChange(ZoneOut("ZBC_SA_CLOSE_ZONE", i).d)
        /\ zbc_zone_exp_open(z) =>
               NoZoneChange(ZoneOut("ZBC_SA_OPEN_ZONE", i).d)

\* The device has an Empty, a Full, a Closed and an ExpOpen zone, and each
\* of the four commands succeeds on its zone.
C15_Witness ==
    /\ \E i \in DOMAIN zdev.zones :
           zbc_zone_empty(zdev.zones[i]) /\
           ZoneOut("ZBC_SA_RESET_WP", i).ret = TCMU_STS_OK
    /\ \E i \in DOMAIN zdev.zones :
           zbc_zone_full(zdev.zones[i]) /\
           ZoneOut("ZBC_SA_FINISH_ZONE", i).ret = TCMU_STS_OK
    /\ \E i \in DOMAIN zdev.zones :
           zbc_zone_closed(zdev.zones[i]) /\
           ZoneOut("ZBC_SA_CLOSE_ZONE", i).ret = TCMU_STS_OK
    /\ \E i \in DOMAIN zdev.zones :
           zbc_zone_exp_open(zdev.zones[i]) /\
           ZoneOut("ZBC_SA_OPEN_ZONE", i).ret = TCMU_STS_OK
    /\ C15_Idempotence

\* Zone i of the device is an SWR, SWP or SOBR zone.
SeqOrSobr(i) ==
    zbc_zone_seq_req(zdev.zones[i]) \/ zbc_zone_seq_pref(zdev.zones[i])
        \/ zbc_zone_sobr(zdev.zones[i])

\* Zone i of the device is Empty, Closed, ImpOpen or ExpOpen.
Finishable(i) ==
    zbc_zone_empty(zdev.zones[i]) \/ zbc_zone_closed(zdev.zones[i])
        \/ zbc_zone_is_open(zdev.zones[i])

\* The command result r is success and has left zone i Full, in the
\* seq-active list only, with the write pointer of a Full zone.
Finished(r, i) ==
    /\ r.ret = TCMU_STS_OK
    /\ zbc_zone_full(r.d.zones[i])
    /\ ListsOf(r.d, i) = {"seq_active_zones"}
    /\ r.d.zones[i].wp = IF zbc_zone_sobr(zdev.zones[i]) THEN ZBC_NO_WP
                         ELSE zdev.zones[i].start + zdev.zones[i].len

C17_CloseOpenZone ==
    \A i \in DOMAIN zdev.zones :
        LET z == zdev.zones[i]
            r == ZoneOut("ZBC_SA_CLOSE_ZONE", i)
        IN ((zbc_zone_seq_req(z) \/ zbc_zone_seq_pref(z)) /\
            zbc_zone_is_open(z)) =>
               /\ r.ret = TCMU_STS_OK
               /\ r.d.zones[i].wp = z.wp
               /\ IF z.wp = z.start
                  THEN /\ zbc_zone_empty(r.d.zones[i])
                       /\ ListsOf(r.d, i) = {"seq_active_zones"}
                  ELSE /\ zbc_zone_closed(r.d.zones[i])
                       /\ ListsOf(r.d, i) = {"closed_zones"}
                       /\ r.d.closed_zones.head = i

\* Two written zones were closed: the one closed last is at the head of
\* the closed list, its write pointer past its start.
C17_Witness ==
    /\ rsp.ret = TCMU_STS_OK
    /\ zdev.closed_zones.size = 2
    /\ zdev.zones[zdev.closed_zones.head].wp
           > zdev.zones[zdev.closed_zones.head].start
    /\ C17_CloseOpenZone

\* C18: RESET WRITE POINTER on one SWR, SWP or SOBR zone that is Empty,
\* ImpOpen, ExpOpen, Closed or Full succeeds and leaves the zone Empty with
\* its write pointer at its start, in the seq-active list and in no other.
C18_ResetWp ==
    \A i \in DOMAIN zdev.zones :
        LET r == ZoneOut("ZBC_SA_RESET_WP", i) IN
        (SeqOrSobr(i) /\ (Finishable(i) \/ zbc_zone_full(zdev.zones[i]))) =>
            /\ r.ret = TCMU_STS_OK
            /\ zbc_zone_empty(r.d.zones[i])
            /\ r.d.zones[i].wp = zdev.zones[i].start
            /\ ListsOf(r.d, i) = {"seq_active_zones"}

\* The device has a Full, a Closed and an open zone, and RESET WRITE
\* POINTER empties each of them.
C18_Witness ==
    /\ \E i \in DOMAIN zdev.zones :
           zbc_zone_full(zdev.zones[i]) /\
           zbc_zone_empty(ZoneOut("ZBC_SA_RESET_WP", i).d.zones[i])
    /\ \E i \in DOMAIN zdev.zones :
           zbc_zone_closed(zdev.zones[i]) /\
           zbc_zone_empty(ZoneOut("ZBC_SA_RESET_WP", i).d.zones[i])
    /\ \E i \in DOMAIN zdev.zones :
           zbc_zone_is_open(zdev.zones[i]) /\
           zbc_zone_empty(ZoneOut("ZBC_SA_RESET_WP", i).d.zones[i])
    /\ C18_ResetWp

\* The writes that start and end inside zone i of the device: <<lba, len>>.
WritesInZone(i) ==
    {w \in (zdev.zones[i].start..(zdev.zones[i].start + zdev.zones[i].len - 1))
             \X (0..MaxLen) :
        w[1] + w[2] <= zdev.zones[i].start + zdev.zones[i].len}

\* The write pointer the claim gives zone i of the device after the write
\* of n LBAs at LBA x.
WpAfterWrite(i, x, n) ==
    IF zbc_zone_seq_req(zdev.zones[i]) THEN zdev.zones[i].wp + n
    ELSE Max(zdev.zones[i].wp, x + n)

\* Zone i of device e is Full, not open, and in the seq-active list only.
FullInSeqActive(e, i) ==
    /\ zbc_zone_full(e.zones[i])
    /\ ~zbc_zone_is_open(e.zones[i])
    /\ ListsOf(e, i) = {"seq_active_zones"}

\* C19 as claimed: after a successful write of n LBAs at LBA x inside one
\* zone, the write pointer of an SWR zone has grown by n and that of an SWP
\* or SOBR zone is the larger of its old value and x + n; a zone whose write
\* pointer has reached start + len is Full, not open and in the seq-active
\* list.
C19_WpAfterWrite ==
    \A i \in DOMAIN zdev.zones :
        SeqOrSobr(i) =>
            \A w \in WritesInZone(i) :
                LET r == zbc_write_zoned(_zbc_handle_cmd(zdev), w[1], w[2])
                    wp == WpAfterWrite(i, w[1], w[2])
                IN r.ret = TCMU_STS_OK =>
                       /\ r.d.zones[i].wp = wp
                       /\ wp >= zdev.zones[i].start + zdev.zones[i].len
                              => FullInSeqActive(r.d, i)

\* C19, amended: after a successful write of n >= 1 LBAs at LBA x inside
\* one zone, the write pointer of an SWR zone has grown by n and that of an
\* SWP or SOBR zone is the larger of its old value and x + n, as long as it
\* stays below start + len; once it reaches start + len the zone is Full,
\* not open and in the seq-active list, with its write pointer at
\* start + len for an SWR or SWP zone and the no-write-pointer value for a
\* SOBR zone.
C19_WpAfterWriteOrFull ==
    \A i \in DOMAIN zdev.zones :
        SeqOrSobr(i) =>
            \A w \in WritesInZone(i) :
                LET r == zbc_write_zoned(_zbc_handle_cmd(zdev), w[1], w[2])
                    wp == WpAfterWrite(i, w[1], w[2])
                    end == zdev.zones[i].start + zdev.zones[i].len
                IN (w[2] >= 1 /\ r.ret = TCMU_STS_OK) =>
                       IF wp < end THEN r.d.zones[i].wp = wp
                       ELSE /\ FullInSeqActive(r.d, i)
                            /\ r.d.zones[i].wp =
                                   IF zbc_zone_sobr(zdev.zones[i])
                                   THEN ZBC_NO_WP ELSE end

\* A zone was written and is open with its write pointer inside the zone,
\* and the write of one more LBA at the write pointer fills it.
C19_Witness ==
    /\ rsp.ret = TCMU_STS_OK
    /\ \E i \in DOMAIN zdev.zones :
           /\ zbc_zone_imp_open(zdev.zones[i])
           /\ zdev.zones[i].wp > zdev.zones[i].start
           /\ FullInSeqActive(
                  zbc_write_zoned(_zbc_handle_cmd(zdev), zdev.zones[i].wp,
                                  1).d, i)
    /\ C19_WpAfterWriteOrFull

\* The write of len LBAs at LBA lba is rejected with UNALIGNED WRITE and
\* leaves the write pointer and the condition of zone i as they were.
RejectedUnaligned(i, lba, len) ==
    LET r == zbc_write_zoned(_zbc_handle_cmd(zdev), lba, len) IN
    /\ r.ret = zbc_set_sense("ILLEGAL_REQUEST", "ASC_UNALIGNED_WRITE_COMMAND")
    /\ r.d.zones[i].wp = zdev.zones[i].wp
    /\ r.d.zones[i].cond = zdev.zones[i].cond

\* The LBAs of zone i of the device that are not its write pointer.
LbasOffWp(i) ==
    (zdev.zones[i].start..(zdev.zones[i].start + zdev.zones[i].len - 1))
        \ {zdev.zones[i].wp}

\* C20 as claimed: a write that starts in an SWR zone that is not Full, at
\* an LBA that is not the write pointer of the zone, is rejected with
\* UNALIGNED WRITE and leaves the write pointer and the condition of the
\* zone as they were.
C20_UnalignedWrite ==
    \A i \in DOMAIN zdev.zones :
        (zbc_zone_seq_req(zdev.zones[i]) /\ ~zbc_zone_full(zdev.zones[i])) =>
            \A lba \in LbasOffWp(i), len \in 0..MaxLen :
                RejectedUnaligned(i, lba, len)

\* C20, amended: a write that starts in an Empty, Closed, ImpOpen or
\* ExpOpen SWR zone, at an LBA that is not the write pointer of the zone,
\* and ends inside the zone, is rejected with UNALIGNED WRITE and leaves
\* the write pointer and the condition of the zone as they were.
C20_UnalignedWriteInZone ==
    \A i \in DOMAIN zdev.zones :
        (zbc_zone_seq_req(zdev.zones[i]) /\ Finishable(i)) =>
            \A lba \in LbasOffWp(i), len \in 0..MaxLen :
                lba + len <= zdev.zones[i].start + zdev.zones[i].len
                    => RejectedUnaligned(i, lba, len)

\* The last command was a write rejected with UNALIGNED WRITE, and an SWR
\* zone is open with its write pointer inside the zone.
C20_Witness ==
    /\ rsp.ret = zbc_set_sense("ILLEGAL_REQUEST",
                               "ASC_UNALIGNED_WRITE_COMMAND")
    /\ zdev.stats.write_rule_fails > 0
    /\ \E i \in DOMAIN zdev.zones :
           /\ zbc_zone_seq_req(zdev.zones[i])
           /\ zbc_zone_imp_open(zdev.zones[i])
           /\ zdev.zones[i].wp > zdev.zones[i].start

\* C21: on a freshly formatted host-managed device that is written one
\* whole zone per write, in ascending order from the first SWR zone, every
\* write succeeds, the zones written so far are Full and the others Empty,
\* no zone is open between two writes, the open-zone peak is 1 once a zone
\* has been written, and each write takes its zone through ImpOpen, with
\* one zone open, to Full.
C21_SeqWriteFillsZones ==
    /\ rsp.ret = TCMU_STS_OK
    /\ \A i \in DOMAIN zdev.zones :
           zbc_zone_seq_req(zdev.zones[i]) =>
               IF i < SeqZone
               THEN /\ zbc_zone_full(zdev.zones[i])
                    /\ zdev.zones[i].wp =
                           zdev.zones[i].start + zdev.zones[i].len
                    /\ ListsOf(zdev, i) = {"seq_active_zones"}
               ELSE /\ zbc_zone_empty(zdev.zones[i])
                    /\ zdev.zones[i].wp = zdev.zones[i].start
    /\ zdev.nr_imp_open + zdev.nr_exp_open = 0
    /\ zdev.stats.max_open_zones = (IF nr_ops > 0 THEN 1 ELSE 0)
    /\ zdev.stats.max_imp_open_seq_zones = zdev.stats.max_open_zones
    /\ zdev.stats.max_exp_open_seq_zones = 0
    /\ SeqZone < zdev.nr_zones =>
           LET o == __zbc_open_zone(_zbc_handle_cmd(zdev), SeqZone, FALSE)
           IN /\ zbc_zone_imp_open(o.zones[SeqZone])
              /\ o.nr_imp_open + o.nr_exp_open = 1
              /\ zbc_write_zoned(_zbc_handle_cmd(zdev),
                                 zdev.zones[SeqZone].start,
                                 zdev.zones[SeqZone].len).d
                     = zbc_adjust_write_ptr(o, SeqZone,
                                            zdev.zones[SeqZone].start,
                                            zdev.zones[SeqZone].len)

\* Four or more writes have filled every SWR zone of a device that has a
\* conventional zone, one zone at a time.
C21_Witness ==
    /\ nr_ops >= 4
    /\ zdev.nr_conv_zones >= 1
    /\ SeqZone = zdev.nr_zones
    /\ \A i \in DOMAIN zdev.zones :
           zbc_zone_seq_req(zdev.zones[i]) => zbc_zone_full(zdev.zones[i])
    /\ zdev.stats.max_open_zones = 1

\* The descriptors of the sequence desc are in strictly ascending order of
\* zone ID.
AscendingZoneIds(desc) ==
    \A k \in 1..(Len(desc) - 1) : desc[k].start < desc[k + 1].start

\* ZONE ACTIVATE / ZONE QUERY inputs that name whole realms: the first zone
\* of a realm in a domain, or all the realms, with room for MaxDesc
\* descriptors.
RealmActvArgs ==
    LET full == ZBC_ACTV_RES_HEADER_SIZE +
                MaxDesc * ZBC_ACTV_RES_DESCRIPTOR_SIZE
        arg(all, dom, lba, nozsrc, nzsrc) ==
            [all |-> all, domain_id |-> dom, start_lba |-> lba, len |-> full,
             nozsrc |-> nozsrc, nzsrc |-> nzsrc]
    IN { arg(FALSE, dom, zdev.zones[z].start, TRUE, n) :
            dom \in 0..(zdev.nr_domains - 1),
            z \in {y \in DOMAIN zdev.zones :
                      \E i \in DOMAIN zdev.realms, t \in 1..4 :
                          /\ zbc_realm_length(zdev.realms[i], t) > 0
                          /\ zbc_realm_start(zdev.realms[i], t)
                                 = zdev.zones[y].start},
            n \in {k * zdev.nr_cmr_realm_zones : k \in 1..2}
                      \cup {k * zdev.nr_smr_realm_zones : k \in 1..2} }
       \cup { arg(TRUE, dom, 0, FALSE, 0) :
                 dom \in 0..(zdev.nr_domains - 1) }

\* C22: the descriptors a successful ZONE ACTIVATE or ZONE QUERY of whole
\* realms returns are in strictly ascending order of zone ID, whatever the
\* current types of the realms of the range.
C22_DescAscending ==
    /\ AscendingZoneIds(rsp.desc)
    /\ \A a \in RealmActvArgs :
           \A oob \in OobWords(zdev, a) :
               /\ AscendingZoneIds(zbc_scsi_in(_zbc_handle_cmd(zdev),
                                               "ZBC_SA_ZONE_ACTIVATE_16",
                                               a, oob).desc)
               /\ AscendingZoneIds(zbc_scsi_in(_zbc_handle_cmd(zdev),
                                               "ZBC_SA_ZONE_QUERY_16",
                                               a, oob).desc)

\* ZONE ACTIVATE(16) of the whole realm i of the device as SWR zones,
\* addressed at the start of the SOBR zones of the realm (sobr) or at the
\* start of its SWR zones, with the zone count of the realm in the CDB.
ActivateRealmSwr(i, sobr) ==
    LET zt == IF sobr THEN ZBC_ZONE_TYPE_SEQ_OR_BEF_REQ
              ELSE ZBC_ZONE_TYPE_SEQWRITE_REQ
        a == [all |-> FALSE,
              domain_id |-> zbc_domain_id(zdev, ZBC_ZONE_TYPE_SEQWRITE_REQ),
              start_lba |-> zbc_realm_start(zdev.realms[i], zt),
              len |-> ZBC_ACTV_RES_HEADER_SIZE +
                      MaxDesc * ZBC_ACTV_RES_DESCRIPTOR_SIZE,
              nozsrc |-> TRUE,
              nzsrc |-> zbc_realm_length(zdev.realms[i], zt)]
    IN zbc_scsi_in(_zbc_handle_cmd(zdev), "ZBC_SA_ZONE_ACTIVATE_16", a, 0)

\* The activation result r has made realm i an SWR realm: status OK, no
\* error bit, ACTIVATED set, the SOBR zones of the realm Inactive and its
\* SWR zones Empty.
RealmNowSwr(r, i) ==
    /\ r.ret = TCMU_STS_OK
    /\ r.hdr.error = 0
    /\ ActvBit(r.hdr.status, ZBC_ACTV_STAT_ACTIVATED)
    /\ r.d.realms[i].type = ZBC_ZONE_TYPE_SEQWRITE_REQ
    /\ \A z \in SlotZones(r.d.realms[i], ZBC_ZONE_TYPE_SEQ_OR_BEF_REQ) :
           zbc_zone_inactive(r.d.zones[z])
    /\ \A z \in SlotZones(r.d.realms[i], ZBC_ZONE_TYPE_SEQWRITE_REQ) :
           zbc_zone_empty(r.d.zones[z])

\* C23 as claimed: on a freshly formatted ZD_SOBR device, ZONE ACTIVATE of
\* one whole realm, addressed at its start, as SWR succeeds: the realm is
\* SWR, its SOBR zones are Inactive and its SWR zones Empty.
C23_ActivateSobrRealm ==
    (nr_ops = 0 /\ zdev.dev_model = ZBC_MO_ZD_SOBR_NO_CMR) =>
        \A i \in DOMAIN zdev.realms, sobr \in BOOLEAN :
            RealmNowSwr(ActivateRealmSwr(i, sobr), i)

\* C23, amended: the activation succeeds in this way on a freshly
\* formatted ZD_SOBR_EMPTY device, whose SOBR zones start Empty.  On a
\* freshly formatted ZD_SOBR device, whose SOBR zones start Full, it ends
\* with status OK and the NOT_EMPTY error bit, names the first SOBR zone of
\* the realm in ZIWUP, and changes no realm and no zone.
C23_ActivateEmptySobrRealm ==
    nr_ops = 0 =>
        \A i \in DOMAIN zdev.realms, sobr \in BOOLEAN :
            LET r == ActivateRealmSwr(i, sobr) IN
            /\ zdev.dev_model = ZBC_MO_ZD_SOBR_EMPTY => RealmNowSwr(r, i)
            /\ zdev.dev_model = ZBC_MO_ZD_SOBR_NO_CMR =>
                   /\ r.ret = TCMU_STS_OK
                   /\ r.hdr.error = ZBC_ACTV_ERR_NOT_EMPTY
                   /\ ~ActvBit(r.hdr.status, ZBC_ACTV_STAT_ACTIVATED)
                   /\ ActvBit(r.hdr.status, ZBC_ACTV_STAT_ZIWUP_VALID)
                   /\ r.hdr.ziwup =
                          zbc_realm_start(zdev.realms[i],
                                          ZBC_ZONE_TYPE_SEQ_OR_BEF_REQ)
                   /\ r.d.realms = zdev.realms
                   /\ r.d.zones = zdev.zones

\* The first command to a ZD_SOBR_EMPTY device was a ZONE ACTIVATE that
\* made a realm SWR: its SOBR zones are Inactive and its SWR zones Empty.
C23_Witness ==
    /\ nr_ops = 1
    /\ zdev.dev_model = ZBC_MO_ZD_SOBR_EMPTY
    /\ rsp.ret = TCMU_STS_OK
    /\ rsp.hdr # << >>
    /\ ActvBit(rsp.hdr.status, ZBC_ACTV_STAT_ACTIVATED)
    /\ \E i \in DOMAIN zdev.realms :
           /\ zdev.realms[i].type = ZBC_ZONE_TYPE_SEQWRITE_REQ
           /\ \A z \in SlotZones(zdev.realms[i],
                                 ZBC_ZONE_TYPE_SEQ_OR_BEF_REQ) :
                  zbc_zone_inactive(zdev.zones[z])
           /\ \A z \in SlotZones(zdev.realms[i],
                                 ZBC_ZONE_TYPE_SEQWRITE_REQ) :
                  zbc_zone_empty(zdev.zones[z])

\* ZONE QUERY(16) with the arguments a, issued after the ZONE ACTIVATE(16)
\* with the same arguments that has ended with the result r: the set of
\* its results, one for every word the query can read past the end of the
\* zone count map.
QueryAfter(r, a) ==
    {zbc_scsi_in(_zbc_handle_cmd(r.d), "ZBC_SA_ZONE_QUERY_16", a, oob) :
        oob \in OobWords(r.d, a)}

\* The ZONE ACTIVATE(16) results of the device for the arguments a that
\* have succeeded: status OK and the ACTIVATED bit in the header.
Activated(a) ==
    {r \in {zbc_scsi_in(_zbc_handle_cmd(zdev), "ZBC_SA_ZONE_ACTIVATE_16",
                        a, oob) : oob \in OobWords(zdev, a)} :
        /\ r.ret = TCMU_STS_OK
        /\ ActvBit(r.hdr.status, ZBC_ACTV_STAT_ACTIVATED)}

\* C24 as claimed: after a ZONE ACTIVATE has succeeded, a ZONE QUERY with
\* the same arguments returns a header with the ACTIVATED bit set and
\* changes no state.
C24_QueryAfterActivateActivated ==
    \A a \in ActvArgs :
        \A r \in Activated(a) :
            \A q \in QueryAfter(r, a) :
                /\ q.ret = TCMU_STS_OK
                /\ ActvBit(q.hdr.status, ZBC_ACTV_STAT_ACTIVATED)
                /\ q.d = _zbc_handle_cmd(r.d)

\* C24, amended: after a ZONE ACTIVATE has succeeded, a ZONE QUERY with the
\* same arguments ends with status OK, returns a header with the ACTIVATED
\* bit clear, as every ZONE QUERY does, and changes no state but the
\* command counter.
C24_QueryAfterActivate ==
    \A a \in ActvArgs :
        \A r \in Activated(a) :
            \A q \in QueryAfter(r, a) :
                /\ q.ret = TCMU_STS_OK
                /\ ~ActvBit(q.hdr.status, ZBC_ACTV_STAT_ACTIVATED)
                /\ q.d = _zbc_handle_cmd(r.d)

\* The device has run two commands since it was formatted: a ZONE ACTIVATE
\* that succeeded and changed the type of a realm, and then a ZONE QUERY
\* with the same arguments, whose response, without an error bit and with
\* the ACTIVATED bit clear, is the last one.
C24_Witness ==
    /\ nr_ops = 2
    /\ rsp.hdr # << >>
    /\ rsp.hdr.error = 0
    /\ \E a \in ActvArgs :
           LET d0 == zbc_open_backstore(zdev.cfg)
               r == zbc_scsi_in(_zbc_handle_cmd(d0),
                                "ZBC_SA_ZONE_ACTIVATE_16", a, 0)
               q == zbc_scsi_in(_zbc_handle_cmd(r.d),
                                "ZBC_SA_ZONE_QUERY_16", a, 0)
           IN /\ r.ret = TCMU_STS_OK
              /\ ActvBit(r.hdr.status, ZBC_ACTV_STAT_ACTIVATED)
              /\ r.d.realms # d0.realms
              /\ zdev = q.d
              /\ rsp = [ret |-> q.ret, hdr |-> q.hdr, desc |-> q.desc]
              /\ ~ActvBit(q.hdr.status, ZBC_ACTV_STAT_ACTIVATED)

\* ZONE ACTIVATE inputs without ALL, valid but for the start LBA: a domain
\* of the device, one to MaxActv zones that end inside the device, room for
\* MaxDesc descriptors, and a start LBA that is aligned to a zone and is
\* not the start LBA of a realm in any of its zone types.
OffRealmArgs ==
    {a \in ActvArgs :
        /\ ~a.all /\ a.nozsrc
        /\ a.domain_id < zdev.nr_domains
        /\ a.nzsrc >= 1
        /\ a.start_lba % zdev.zone_size = 0
        /\ a.start_lba \div zdev.zone_size + a.nzsrc <= zdev.nr_zones
        /\ \A i \in DOMAIN zdev.realms, t \in 1..ZBC_NR_ZONE_TYPES :
               zbc_realm_length(zdev.realms[i], t) > 0
                   => zbc_realm_start(zdev.realms[i], t) # a.start_lba}

\* The activation result r reports the start LBA of a as not aligned to a
\* realm: status OK, the REALM_ALIGN error bit and ZIWUP equal to the start
\* LBA, and no zone and no realm changed.
RealmAlignError(r, a) ==
    /\ r.ret = TCMU_STS_OK
    /\ ActvBit(r.hdr.error, ZBC_ACTV_ERR_REALM_ALIGN)
    /\ ActvBit(r.hdr.status, ZBC_ACTV_STAT_ZIWUP_VALID)
    /\ r.hdr.ziwup = a.start_lba
    /\ r.d.zones = zdev.zones
    /\ r.d.realms = zdev.realms

\* C25 as claimed: on a Zone Domains device with the realms feature on, a
\* ZONE ACTIVATE without ALL whose start LBA is aligned to a zone and is
\* not the start LBA of a realm returns status OK with the REALM_ALIGN
\* error bit and ZIWUP equal to the start LBA, and changes no zone and no
\* realm.
C25_RealmAlign ==
    (zbc_mt_zd(zdev) /\ zdev.realms_feat_set) =>
        \A a \in OffRealmArgs :
            \A oob \in OobWords(zdev, a) :
                RealmAlignError(zbc_scsi_in(_zbc_handle_cmd(zdev),
                                            "ZBC_SA_ZONE_ACTIVATE_16",
                                            a, oob), a)

\* C25, amended: the same when the start LBA lies in a zone of a zone
\* domain.  When it lies in a gap zone, outside every zone domain, the
\* command is rejected with ILLEGAL REQUEST / INVALID FIELD IN CDB, without
\* a header, and changes no zone and no realm either.
C25_RealmAlignInDomain ==
    (zbc_mt_zd(zdev) /\ zdev.realms_feat_set) =>
        \A a \in OffRealmArgs :
            \A oob \in OobWords(zdev, a) :
                LET r == zbc_scsi_in(_zbc_handle_cmd(zdev),
                                     "ZBC_SA_ZONE_ACTIVATE_16", a, oob)
                    zone == zdev.zones[a.start_lba \div zdev.zone_size]
                IN IF zbc_get_zone_domain(zdev, zone) >= 0
                   THEN RealmAlignError(r, a)
                   ELSE /\ r.ret = zbc_set_sense("ILLEGAL_REQUEST",
                                                 "ASC_INVALID_FIELD_IN_CDB")
                        /\ r.hdr = << >>
                        /\ r.d.zones = zdev.zones
                        /\ r.d.realms = zdev.realms

\* The last command, to a device with the realms feature on, has returned
\* the REALM_ALIGN error bit and, in ZIWUP, an LBA that starts a zone and
\* no realm.
C25_Witness ==
    /\ zbc_mt_zd(zdev) /\ zdev.realms_feat_set
    /\ rsp.ret = TCMU_STS_OK
    /\ rsp.hdr # << >>
    /\ ~rsp.hdr.all
    /\ ActvBit(rsp.hdr.error, ZBC_ACTV_ERR_REALM_ALIGN)
    /\ ActvBit(rsp.hdr.status, ZBC_ACTV_STAT_ZIWUP_VALID)
    /\ \E a \in OffRealmArgs :
           /\ rsp.hdr.ziwup = a.start_lba
           /\ rsp.hdr.nz = a.nzsrc
           /\ rsp.hdr.domain_id = a.domain_id

\* The device after the commands cmds have been carried out on device d one
\* after the other, each to completion.
RECURSIVE FwRun(_, _)
FwRun(d, cmds) ==
    IF cmds = << >> THEN d
    ELSE FwRun(zbc_handle_cmd(d, Head(cmds)).d, Tail(cmds))

\* C26: the commands of a device are carried out one at a time, each to
\* completion, in the order of their delivery: at most one handler call is
\* in progress, the commands completed, the one in progress and those
\* waiting are in this order the commands delivered, a call in progress
\* has read the metadata as the commands before it have left them, and the
\* metadata are those that the completed commands, carried out one after
\* the other in the order of delivery, produce from the formatted device.
C26_Serialized ==
    /\ Len(fw.running) <= 1
    /\ fw.done \o [k \in DOMAIN fw.running |-> fw.running[k].cmd] \o fw.queue
           = fw.issued
    /\ \A k \in DOMAIN fw.running : fw.running[k].seen = zdev
    /\ zdev = FwRun(zbc_open_backstore(zdev.cfg), fw.done)

\* Three commands have been delivered and completed, a write after a zone
\* operation after a write, and have left the first sequential zone with
\* its write pointer moved.
C26_Witness ==
    /\ Len(fw.done) = 3
    /\ fw.done[1].op = "WRITE"
    /\ fw.done[2].op = "ZBC_SA_CLOSE_ZONE"
    /\ fw.done[3].op = "WRITE"
    /\ rsp.ret = TCMU_STS_OK
    /\ zdev.zones[zdev.nr_conv_zones].wp
           = zdev.zones[zdev.nr_conv_zones].start + 2

\* The metadata check of zbc_open() accepts the backstore file the device
\* has written: the file is used as it is, without a format.
ReopenValid ==
    zbc_dev_check_meta([zbc_dev(zdev.cfg) EXCEPT !.st_size = zdev.st_size],
                       zdev, zdev.st_size).ok

\* C27: when the backstore file of the device is opened again and its
\* metadata are valid, no zone is ImpOpen afterwards, and every zone that
\* was open is Closed or Empty.
C27_NoImpOpenAfterReopen ==
    ReopenValid =>
        LET r == zbc_open(zdev) IN
        \A i \in DOMAIN zdev.zones :
            /\ ~zbc_zone_imp_open(r.zones[i])
            /\ zbc_zone_is_open(zdev.zones[i]) =>
                   zbc_zone_closed(r.zones[i]) \/ zbc_zone_empty(r.zones[i])

(***************************************************************************)
(* MODE SELECT of the Zone Domains mode page (page 0x3d, subpage 0x08)     *)
(***************************************************************************)
\* Turn unrestricted reads (URSWRZ) on or off.
zbc_set_urswrz(d, urswrz) ==
    IF urswrz = 0 \/ urswrz = 1
    THEN IF d.wp_check # 0 /\ urswrz = 1
         THEN [d EXCEPT !.wp_check = 0, !.meta.wp_check = 0]
         ELSE IF d.wp_check = 0 /\ urswrz = 0
         THEN [d EXCEPT !.wp_check = 1, !.meta.wp_check = 1]
         ELSE d
    ELSE d

\* The same, with FSNOZ stored before it is compared with MAX ACTIVATE.
zbc_set_subseq_nr_zones_unchecked(d, fsnoz) ==
    IF fsnoz # 0 /\ fsnoz # d.nr_actv_zones
    THEN [d |-> [d EXCEPT !.nr_actv_zones = fsnoz,
                          !.meta.nr_actv_zones = fsnoz],
          ret |-> IF d.max_activate # 0 /\ fsnoz > d.max_activate
                  THEN 1 ELSE 0]
    ELSE [d |-> d, ret |-> 0]

\* Set the number of subsequent zones to activate (FSNOZ).
zbc_set_subseq_nr_zones(d, fsnoz) ==
    IF fsnoz # 0 /\ fsnoz # d.nr_actv_zones
    THEN IF d.max_activate # 0 /\ fsnoz > d.max_activate
         THEN [d |-> d, ret |-> 1]
         ELSE [d |-> [d EXCEPT !.nr_actv_zones = fsnoz,
                               !.meta.nr_actv_zones = fsnoz],
               ret |-> 0]
    ELSE [d |-> d, ret |-> 0]

\* Set the MAXIMUM ACTIVATION value, in zones.
zbc_set_max_activation(d, max_activate) ==
    IF max_activate # d.max_activate
    THEN IF max_activate = 0 \/ max_activate > d.nr_zones
         THEN [d EXCEPT !.max_activate = 0, !.meta.max_activate = 0]
         ELSE LET d1 == [d EXCEPT !.max_activate = max_activate,
                                  !.meta.max_activate = max_activate]
              IN IF d1.nr_actv_zones > max_activate
                 THEN [d1 EXCEPT !.nr_actv_zones = max_activate,
                                 !.meta.nr_actv_zones = max_activate]
                 ELSE d1
    ELSE d

\* The page's fields are applied in the order FSNOZ, URSWRZ, MAX ACTIVATE;
\* the result is 1 when a field is refused.
zbc_ms_set_zone_dom_page(d, fsnoz, urswrz, max_activate) ==
    LET feat == dev_feat(d)
        max_act(d2) ==
            IF feat.max_act_control
            THEN [d |-> zbc_set_max_activation(d2, max_activate), ret |-> 0]
            ELSE IF max_activate # 0 THEN [d |-> d2, ret |-> 1]
            ELSE [d |-> d2, ret |-> 0]
        ur(d1) ==
            IF ~feat.no_ur_control THEN max_act(zbc_set_urswrz(d1, urswrz))
            ELSE IF urswrz # 0 THEN [d |-> d1, ret |-> 1]
            ELSE max_act(d1)
        za == zbc_set_subseq_nr_zones(d, fsnoz)
    IN IF ~zbc_mt_zd(d) THEN [d |-> d, ret |-> 1]
       ELSE IF ~feat.no_za_control
       THEN IF za.ret # 0 THEN [d |-> za.d, ret |-> 1] ELSE ur(za.d)
       ELSE IF fsnoz # 0 THEN [d |-> d, ret |-> 1]
       ELSE ur(d)

\* The handler table lookup for the Zone Domains page: only a Zone Domains
\* device has the page; with no handler the result of a set is -1 and the
\* length of a get is 0.
zbc_handle_mode_page(d, ms, set) ==
    IF zbc_mt_zd(d)
    THEN IF set
         THEN zbc_ms_set_zone_dom_page(d, ms.fsnoz, ms.urswrz, ms.max_activate)
         ELSE [d |-> d, ret |-> 254]
    ELSE [d |-> d, ret |-> IF set THEN -1 ELSE 0]

\* MODE SELECT whose parameter list holds the Zone Domains page.
zbc_mode_select(d, ms) ==
    IF ~ms.pf \/ ms.sp
    THEN [d |-> d,
          ret |-> zbc_set_sense("ILLEGAL_REQUEST", "ASC_INVALID_FIELD_IN_CDB")]
    ELSE IF ms.alloc_len = 0 THEN [d |-> d, ret |-> TCMU_STS_OK]
    ELSE LET r == zbc_handle_mode_page(d, ms, TRUE) IN
         IF r.ret > 0
         THEN [d |-> r.d,
               ret |-> zbc_set_sense("ILLEGAL_REQUEST",
                                     "ASC_INVALID_FIELD_IN_CDB")]
         ELSE IF r.ret < 0
                 /\ zbc_handle_mode_page(r.d, ms, FALSE).ret <= 0
         THEN [d |-> r.d,
               ret |-> zbc_set_sense("ILLEGAL_REQUEST",
                                     "ASC_INVALID_FIELD_IN_PARAMETER_LIST")]
         ELSE [d |-> r.d, ret |-> TCMU_STS_OK]

\* The number of MODE SELECT commands a run issues.
MaxMsCmds == 3

\* Devices of the profiles that differ in what the page may set, created
\* with and without a maxact- option.
MsConfigs ==
    { [zbc_dev_config EXCEPT !.max_activate = ma]
          @@ [dev_type |-> p[1], dev_model |-> p[2],
              realms_feat_set |-> TRUE, mutating |-> FALSE] :
        p \in { <<ZBC_MT_HM_ZONED, ZBC_MO_SMR_NO_CMR>>,
                <<ZBC_MT_ZONE_DOM, ZBC_MO_ZD_1_CMR_BOT>>,
                <<ZBC_MT_ZONE_DOM, ZBC_MO_ZD_BBONE>> },
        ma \in {0, 2} }

\* Parameter lists of MODE SELECT(10): the PF and SP bits, the parameter
\* list length (none, or header and page) and the page's fields; 17 is a
\* MAX ACTIVATE above the number of zones.
MsArgs ==
    [pf : BOOLEAN, sp : BOOLEAN, alloc_len : {0, 262},
     fsnoz : 0..3, urswrz : 0..2, max_activate : {0, 1, 2, 17}]

MsInit ==
    /\ \E cfg \in MsConfigs : zdev = zbc_open_backstore(cfg)
    /\ rsp = zbc_rsp(TCMU_STS_OK)
    /\ nr_ops = 0
    /\ fw = tcmur_idle

ModeSelect ==
    /\ nr_ops < MaxMsCmds
    /\ nr_ops' = nr_ops + 1
    /\ UNCHANGED fw
    /\ \E ms \in MsArgs :
           LET r == zbc_mode_select(_zbc_handle_cmd(zdev), ms) IN
           /\ zdev' = r.d
           /\ rsp' = zbc_rsp(r.ret)

MsNext == ModeSelect

SpecMs == MsInit /\ [][MsNext]_vars

\* The FSNOZ, URSWRZ / wp-check and MAX ACTIVATE settings of a device, in
\* memory and in the mapped header of the backstore file.
MsSettings(d) ==
    <<d.nr_actv_zones, d.wp_check, d.max_activate,
      d.meta.nr_actv_zones, d.meta.wp_check, d.meta.max_activate>>

\* A MODE SELECT of the Zone Domains page that the page's set handler
\* refuses.
MsRefused(ms) ==
    /\ ms.pf /\ ~ms.sp /\ ms.alloc_len # 0
    /\ zbc_ms_set_zone_dom_page(zdev, ms.fsnoz, ms.urswrz,
                                ms.max_activate).ret # 0

\* C28: a MODE SELECT of the Zone Domains page that is rejected (a FSNOZ,
\* URSWRZ or MAX ACTIVATE value the profile does not allow to be set, or a
\* FSNOZ above MAX ACTIVATE) ends with ILLEGAL REQUEST / INVALID FIELD IN
\* CDB and leaves FSNOZ, the wp-check setting and MAX ACTIVATE unchanged,
\* in memory and in the mapped header.
C28_RejectedModeSelect ==
    zbc_mt_zd(zdev) =>
        \A ms \in MsArgs :
            LET r == zbc_mode_select(_zbc_handle_cmd(zdev), ms) IN
            /\ MsRefused(ms) =>
                   r.ret = zbc_set_sense("ILLEGAL_REQUEST",
                                         "ASC_INVALID_FIELD_IN_CDB")
            /\ r.ret # TCMU_STS_OK => MsSettings(r.d) = MsSettings(zdev)

\* A MODE SELECT has set MAX ACTIVATE to 2 and FSNOZ to 1, and the last
\* one, asking for a FSNOZ of 3, was rejected.
C28_Witness ==
    /\ zbc_mt_zd(zdev)
    /\ zdev.max_activate = 2
    /\ zdev.nr_actv_zones = 1
    /\ zdev.cfg.max_activate = 0
    /\ rsp.ret = zbc_set_sense("ILLEGAL_REQUEST", "ASC_INVALID_FIELD_IN_CDB")
    /\ \E ms \in MsArgs : ms.fsnoz = 3 /\ MsRefused(ms)

\* A read that starts in zone i at "lba" and either starts below the zone's
\* write pointer and extends past it or starts at or above it.
ReadsPastWp(i, lba, len) ==
    LET zone == zdev.zones[i] IN
    /\ lba >= zone.start /\ lba < zone.start + zone.len
    /\ \/ lba < zone.wp /\ lba + len > zone.wp
       \/ lba >= zone.wp

ReadData(lba, len) ==
    LET chk == zbc_read_zoned(_zbc_handle_cmd(zdev), lba, len) IN
    IF chk.ret # TCMU_STS_OK THEN [ret |-> chk.ret, iov |-> << >>]
    ELSE zbc_read_zoned_loop(chk.d, lba, len)

\* The block of the data buffer is the block stored for the LBA: the one
\* at the file offset that a write of the LBA goes to.
StoredData(blk, lba) ==
    blk = [src |-> "pread", off |-> zbc_bs_offset(zdev, lba)]

\* C30: with wp-check disabled, a successful read, also one that spans
\* several zones, returns for every LBA of a zone with a write pointer the
\* stored data when the LBA is below the write pointer and zeroes when it
\* is at or above it: nothing of the backstore file is returned for an LBA
\* at or above a write pointer.
C30_ReadZeroesAboveWp ==
    zdev.wp_check = 0 =>
        \A lba \in Lbas, len \in 1..MaxLen :
            LET r == ReadData(lba, len) IN
            r.ret = TCMU_STS_OK =>
                /\ Len(r.iov) = len
                /\ \A k \in 1..len :
                       LET zone == zdev.zones[zbc_get_zone(zdev, lba + k - 1,
                                                           FALSE)]
                       IN zone.wp # ZBC_NO_WP =>
                              IF lba + k - 1 < zone.wp
                              THEN StoredData(r.iov[k], lba + k - 1)
                              ELSE r.iov[k].src = "memset"

(***************************************************************************)
(* Devices created with the wpcheck-y option: reads are checked against   *)
(* the write pointer (URSWRZ is 0).                                        *)
(***************************************************************************)
WpCheckInit ==
    /\ \E cfg \in Configs :
           zdev = zbc_open_backstore([cfg EXCEPT !.wp_check = 1])
    /\ rsp = zbc_rsp(TCMU_STS_OK)
    /\ nr_ops = 0
    /\ fw = tcmur_idle

SpecWpCheck == WpCheckInit /\ [][Next]_vars

(***************************************************************************)
(* MUTATE                                                                  *)
(***************************************************************************)
\* zbc_mutate() with force_mutate set: the device is formatted even when it
\* already has the requested type and model.
zbc_mutate_forced(d, type, model) ==
    LET f == zbc_format_meta([d EXCEPT !.dev_type = type,
                                       !.dev_model = model,
                                       !.cfg.mutating = TRUE])
    IN IF zbc_get_dev_features(type, model) = zbc_dev_features
       THEN [d |-> d,
             ret |-> zbc_set_sense("ILLEGAL_REQUEST",
                                   "ASC_INVALID_FIELD_IN_CDB")]
       ELSE [d |-> [f EXCEPT !.cfg.mutating = FALSE], ret |-> TCMU_STS_OK]

\* MUTATE: change the device type and model.  force_mutate is never set,
\* so a MUTATE to the current type and model returns at once.  When the
\* format fails the previous type and model, and then those of the
\* configuration string, are formatted instead.
zbc_mutate(d, type, model) ==
    LET f == zbc_format_meta([d EXCEPT !.dev_type = type,
                                       !.dev_model = model,
                                       !.cfg.mutating = TRUE])
        f1 == zbc_format_meta([f EXCEPT !.dev_type = d.dev_type,
                                        !.dev_model = d.dev_model])
        f2 == zbc_format_meta([f1 EXCEPT !.dev_type = d.cfg.dev_type,
                                         !.dev_model = d.cfg.dev_model])
    IN IF d.dev_type = type /\ d.dev_model = model
       THEN [d |-> d, ret |-> TCMU_STS_OK]
       ELSE IF zbc_get_dev_features(type, model) = zbc_dev_features
       THEN [d |-> d,
             ret |-> zbc_set_sense("ILLEGAL_REQUEST",
                                   "ASC_INVALID_FIELD_IN_CDB")]
       ELSE IF ~f.ok
       THEN [d |-> [(IF f1.ok THEN f1 ELSE f2) EXCEPT !.cfg.mutating = FALSE],
             ret |-> zbc_set_sense("HARDWARE_ERROR",
                                   "ASC_INTERNAL_TARGET_FAILURE")]
       ELSE [d |-> [f EXCEPT !.cfg.mutating = FALSE], ret |-> TCMU_STS_OK]

\* The type and model of a MUTATE CDB: the supported zoned profiles and a
\* pair that no profile has.
MutateArgs == DevProfiles \cup { <<ZBC_MT_ZONE_DOM, 0>> }

Mutate ==
    /\ nr_ops < CmdBound(zdev)
    /\ nr_ops' = nr_ops + 1
    /\ UNCHANGED fw
    /\ \E a \in MutateArgs :
           LET r == zbc_mutate(_zbc_handle_cmd(zdev), a[1], a[2]) IN
           /\ zdev' = r.d
           /\ rsp' = zbc_rsp(r.ret)

MutateNext == Next \/ Mutate

SpecMutate == Init /\ [][MutateNext]_vars

\* C31: MUTATE to the type and model the device has returns OK and changes
\* nothing: the device is not formatted, and every zone's condition and
\* write pointer, the lists of open zones and every realm's current type
\* are as before.
C31_MutateSame ==
    LET d == _zbc_handle_cmd(zdev)
        r == zbc_mutate(d, zdev.dev_type, zdev.dev_model)
    IN /\ r.ret = TCMU_STS_OK
       /\ r.d = d

\* A device that a MUTATE has formatted as a Zone Domains device and that
\* a write has then left with an implicitly open zone, on which a MUTATE to
\* the type and model it has keeps the zone open.
C31_Witness ==
    /\ zdev.dev_type # zdev.cfg.dev_type
    /\ zbc_mt_zd(zdev)
    /\ nr_ops = 2
    /\ rsp.ret = TCMU_STS_OK
    /\ \E i \in DOMAIN zdev.zones :
           /\ zbc_zone_imp_open(zdev.zones[i])
           /\ zbc_zone_imp_open(
                  zbc_mutate(zdev, zdev.dev_type,
                             zdev.dev_model).d.zones[i])

(***************************************************************************)
(* REPORT ZONES and REPORT REALMS                                          *)
(***************************************************************************)
ZBC_RZ_RO_ALL == 0

ZBC_RZ_RO_EMPTY == 1

ZBC_RZ_RO_IMP_OPEN == 2

ZBC_RZ_RO_EXP_OPEN == 3

ZBC_RZ_RO_CLOSED == 4

ZBC_RZ_RO_FULL == 5

ZBC_RZ_RO_READONLY == 6

ZBC_RZ_RO_OFFLINE == 7

ZBC_RZ_RO_INACTIVE == 8

ZBC_RZ_RO_RWP_RECMND == 16

ZBC_RZ_RO_NON_SEQ == 17

ZBC_RZ_RO_GAP == 62

ZBC_RZ_RO_NOT_WP == 63

ZBC_RZ_RO_PARTIAL == 128

ZBC_ZONE_DESCRIPTOR_OFFSET == 64

ZBC_ZONE_DESCRIPTOR_LENGTH == 64

\* Test if a zone must be reported.
zbc_should_report_zone(zone, ro) ==
    LET options == ro % ZBC_RZ_RO_PARTIAL IN
    CASE options = ZBC_RZ_RO_ALL -> TRUE
      [] options = ZBC_RZ_RO_EMPTY -> zbc_zone_empty(zone)
      [] options = ZBC_RZ_RO_IMP_OPEN -> zbc_zone_imp_open(zone)
      [] options = ZBC_RZ_RO_EXP_OPEN -> zbc_zone_exp_open(zone)
      [] options = ZBC_RZ_RO_CLOSED -> zbc_zone_closed(zone)
      [] options = ZBC_RZ_RO_FULL -> zbc_zone_full(zone)
      [] options = ZBC_RZ_RO_READONLY -> zbc_zone_rdonly(zone)
      [] options = ZBC_RZ_RO_OFFLINE -> zbc_zone_offline(zone)
      [] options = ZBC_RZ_RO_INACTIVE -> zbc_zone_inactive(zone)
      [] options = ZBC_RZ_RO_RWP_RECMND -> zone.reset # 0
      [] options = ZBC_RZ_RO_NON_SEQ -> zone.non_seq # 0
      [] options = ZBC_RZ_RO_GAP -> zbc_zone_gap(zone)
      [] options = ZBC_RZ_RO_NOT_WP -> zbc_zone_not_wp(zone)
      [] OTHER -> FALSE

\* First pass of zbc_report_zones(): the number of zones counted from zone
\* zno on, "len" being the room left for descriptors.
RECURSIVE zbc_report_zones_count(_, _, _, _, _, _)
zbc_report_zones_count(d, zno, lba, partial, ro, len) ==
    IF lba >= d.logical_capacity THEN 0
    ELSE LET zone == d.zones[zno]
             next == zone.start + zone.len
         IN IF zbc_should_report_zone(zone, ro)
            THEN IF partial /\ len < ZBC_ZONE_DESCRIPTOR_LENGTH THEN 0
                 ELSE 1 + zbc_report_zones_count(
                              d, zno + 1, next, partial, ro,
                              IF len > ZBC_ZONE_DESCRIPTOR_LENGTH
                              THEN len - ZBC_ZONE_DESCRIPTOR_LENGTH ELSE 0)
            ELSE zbc_report_zones_count(d, zno + 1, next, partial, ro, len)

\* Second pass of zbc_report_zones(): the zone descriptors copied to the
\* data buffer, "len" being the room left in it.
RECURSIVE zbc_report_zones_fill(_, _, _, _, _)
zbc_report_zones_fill(d, zno, lba, ro, len) ==
    IF ~(lba < d.logical_capacity /\ len >= ZBC_ZONE_DESCRIPTOR_LENGTH)
    THEN << >>
    ELSE LET zone == d.zones[zno]
             next == zone.start + zone.len
         IN IF zbc_should_report_zone(zone, ro)
            THEN <<[type |-> zone.type % 16, cond |-> zone.cond % 16,
                    reset |-> zone.reset # 0, non_seq |-> zone.non_seq # 0,
                    len |-> zone.len, start |-> zone.start,
                    wp |-> zone.wp]>>
                 \o zbc_report_zones_fill(d, zno + 1, next, ro,
                                          len - ZBC_ZONE_DESCRIPTOR_LENGTH)
            ELSE zbc_report_zones_fill(d, zno + 1, next, ro, len)

\* zbc_report_zones() with a first pass that counts every matching zone,
\* with PARTIAL as without.
zbc_report_zones_whole(d, partial, ro, start_lba, len) ==
    LET fail(asc) == [d |-> d, ret |-> zbc_set_sense("ILLEGAL_REQUEST", asc),
                      hdr |-> << >>, desc |-> << >>]
        zno == zbc_get_zone(d, start_lba, FALSE)
        room == IF len > ZBC_ZONE_DESCRIPTOR_OFFSET
                THEN len - ZBC_ZONE_DESCRIPTOR_OFFSET ELSE 0
        nr_zones == zbc_report_zones_count(d, zno, start_lba, FALSE, ro,
                                           room)
        hdr == [list_len |-> nr_zones * ZBC_ZONE_DESCRIPTOR_LENGTH,
                max_lba |-> d.logical_capacity - 1]
    IN IF start_lba >= d.logical_capacity THEN fail("ASC_LBA_OUT_OF_RANGE")
       ELSE IF ro \notin {ZBC_RZ_RO_ALL, ZBC_RZ_RO_EMPTY, ZBC_RZ_RO_IMP_OPEN,
                          ZBC_RZ_RO_EXP_OPEN, ZBC_RZ_RO_CLOSED,
                          ZBC_RZ_RO_FULL, ZBC_RZ_RO_INACTIVE,
                          ZBC_RZ_RO_READONLY, ZBC_RZ_RO_OFFLINE,
                          ZBC_RZ_RO_RWP_RECMND, ZBC_RZ_RO_NON_SEQ,
                          ZBC_RZ_RO_NOT_WP}
       THEN fail("ASC_INVALID_FIELD_IN_CDB")
       ELSE IF zno = NULL THEN fail("ASC_INVALID_FIELD_IN_CDB")
       ELSE IF len < ZBC_ZONE_DESCRIPTOR_OFFSET
       THEN [d |-> d, ret |-> TCMU_STS_OK, hdr |-> hdr, desc |-> << >>]
       ELSE [d |-> d, ret |-> TCMU_STS_OK, hdr |-> hdr,
             desc |-> zbc_report_zones_fill(
                          d, zno, start_lba, ro,
                          len - ZBC_ZONE_DESCRIPTOR_OFFSET)]

\* REPORT ZONES into a data buffer of "len" bytes, the allocation length of
\* the CDB: the status, the header (zone list length and maximum LBA) and
\* the zone descriptors.  A buffer shorter than the header gets a part of
\* the header only.
zbc_report_zones(d, partial, ro, start_lba, len) ==
    LET fail(asc) == [d |-> d, ret |-> zbc_set_sense("ILLEGAL_REQUEST", asc),
                      hdr |-> << >>, desc |-> << >>]
        zno == zbc_get_zone(d, start_lba, FALSE)
        room == IF len > ZBC_ZONE_DESCRIPTOR_OFFSET
                THEN len - ZBC_ZONE_DESCRIPTOR_OFFSET ELSE 0
        nr_zones == zbc_report_zones_count(d, zno, start_lba, partial, ro,
                                           room)
        hdr == [list_len |-> nr_zones * ZBC_ZONE_DESCRIPTOR_LENGTH,
                max_lba |-> d.logical_capacity - 1]
    IN IF start_lba >= d.logical_capacity THEN fail("ASC_LBA_OUT_OF_RANGE")
       ELSE IF ro \notin {ZBC_RZ_RO_ALL, ZBC_RZ_RO_EMPTY, ZBC_RZ_RO_IMP_OPEN,
                          ZBC_RZ_RO_EXP_OPEN, ZBC_RZ_RO_CLOSED,
                          ZBC_RZ_RO_FULL, ZBC_RZ_RO_INACTIVE,
                          ZBC_RZ_RO_READONLY, ZBC_RZ_RO_OFFLINE,
                          ZBC_RZ_RO_RWP_RECMND, ZBC_RZ_RO_NON_SEQ,
                          ZBC_RZ_RO_NOT_WP}
       THEN fail("ASC_INVALID_FIELD_IN_CDB")
       ELSE IF zno = NULL THEN fail("ASC_INVALID_FIELD_IN_CDB")
       ELSE IF len < ZBC_ZONE_DESCRIPTOR_OFFSET
       THEN [d |-> d, ret |-> TCMU_STS_OK, hdr |-> hdr, desc |-> << >>]
       ELSE [d |-> d, ret |-> TCMU_STS_OK, hdr |-> hdr,
             desc |-> zbc_report_zones_fill(
                          d, zno, start_lba, ro,
                          len - ZBC_ZONE_DESCRIPTOR_OFFSET)]

\* The reporting options and the PARTIAL bit are taken from byte 14 of the
\* CDB.
zbc_scsi_report_zones(d, cdb14, lba, len) ==
    zbc_report_zones(d, cdb14 >= ZBC_RZ_RO_PARTIAL,
                     cdb14 % ZBC_RZ_RO_PARTIAL, lba, len)

\* The REPORT ZONES commands issued: every reporting option with and without
\* PARTIAL, from the first LBA, into a buffer with room for the header and
\* two descriptors.
RzOptions ==
    { ZBC_RZ_RO_ALL, ZBC_RZ_RO_EMPTY, ZBC_RZ_RO_IMP_OPEN, ZBC_RZ_RO_EXP_OPEN,
      ZBC_RZ_RO_CLOSED, ZBC_RZ_RO_FULL, ZBC_RZ_RO_READONLY,
      ZBC_RZ_RO_OFFLINE, ZBC_RZ_RO_INACTIVE, ZBC_RZ_RO_RWP_RECMND,
      ZBC_RZ_RO_NON_SEQ, ZBC_RZ_RO_GAP, ZBC_RZ_RO_NOT_WP }

ReportZones ==
    /\ nr_ops < CmdBound(zdev)
    /\ nr_ops' = nr_ops + 1
    /\ UNCHANGED fw
    /\ \E ro \in RzOptions, partial \in {0, ZBC_RZ_RO_PARTIAL} :
         LET r == zbc_scsi_report_zones(
                      _zbc_handle_cmd(zdev), ro + partial, 0,
                      ZBC_ZONE_DESCRIPTOR_OFFSET
                      + 2 * ZBC_ZONE_DESCRIPTOR_LENGTH)
         IN /\ zdev' = r.d
            /\ rsp' = [ret |-> r.ret, hdr |-> r.hdr, desc |-> r.desc]


\* The zones of device d that lie at or after start_lba, wholly or in part,
\* and satisfy reporting option ro, in ascending LBA order.
RzMatching(d, ro, start_lba) ==
    SelectSeq([i \in 1..d.nr_zones |-> d.zones[i - 1]],
              LAMBDA z : /\ z.start + z.len > start_lba
                         /\ zbc_should_report_zone(z, ro))

\* The start LBAs tried: the first LBA, one inside the second zone, the
\* start of the fifth zone and the last LBA.
RzLbas ==
    {0, zdev.zone_size + 1, 4 * zdev.zone_size, zdev.logical_capacity - 1}

\* A buffer that holds the header and a descriptor of every zone.
RzUnbounded ==
    ZBC_ZONE_DESCRIPTOR_OFFSET + zdev.nr_zones * ZBC_ZONE_DESCRIPTOR_LENGTH

RzReportsMatching(ro, partial, lba) ==
    LET d == _zbc_handle_cmd(zdev)
        r == zbc_scsi_report_zones(d, ro + partial, lba, RzUnbounded)
        m == RzMatching(d, ro, lba)
    IN /\ r.ret = TCMU_STS_OK
       /\ Len(r.desc) = Len(m)
       /\ \A i \in 1..Len(m) :
            /\ r.desc[i].start = m[i].start
            /\ r.desc[i].len = m[i].len
            /\ r.desc[i].type = m[i].type
            /\ r.desc[i].cond = m[i].cond
            /\ r.desc[i].wp = m[i].wp

\* C32: REPORT ZONES with any of the reporting options (ALL, a zone
\* condition, RWP-recommended, non-seq, Gap, NotWP) is accepted and returns,
\* in ascending LBA order from the start LBA, exactly the zones that satisfy
\* the option.
C32_ReportZonesOptions ==
    \A ro \in RzOptions, partial \in {0, ZBC_RZ_RO_PARTIAL}, lba \in RzLbas :
        RzReportsMatching(ro, partial, lba)

\* The buffer sizes tried: the header alone, the header and most of a
\* descriptor, the header and two descriptors, and room for every zone.
RzLens ==
    { ZBC_ZONE_DESCRIPTOR_OFFSET,
      ZBC_ZONE_DESCRIPTOR_OFFSET + ZBC_ZONE_DESCRIPTOR_LENGTH - 1,
      ZBC_ZONE_DESCRIPTOR_OFFSET + 2 * ZBC_ZONE_DESCRIPTOR_LENGTH,
      RzUnbounded }

\* The number of zones of a REPORT ZONES header: the zone list length over
\* the descriptor length.
RzCount(hdr) == hdr.list_len \div ZBC_ZONE_DESCRIPTOR_LENGTH

\* C33: for REPORT ZONES into a buffer of N bytes that holds the header,
\* without PARTIAL the header count is the total number of matching zones
\* from the start LBA and exactly min(total, floor((N - 64) / 64)) records
\* are returned; with PARTIAL the header count is the number of records that
\* fit in the buffer, which are the records returned.
C33_ReportZonesCount ==
    \A ro \in {ZBC_RZ_RO_ALL, ZBC_RZ_RO_EMPTY, ZBC_RZ_RO_IMP_OPEN,
               ZBC_RZ_RO_FULL, ZBC_RZ_RO_INACTIVE},
       lba \in {0, zdev.zone_size + 1}, len \in RzLens :
        LET d == _zbc_handle_cmd(zdev)
            total == Len(RzMatching(d, ro, lba))
            fit == Min(total, (len - ZBC_ZONE_DESCRIPTOR_OFFSET)
                              \div ZBC_ZONE_DESCRIPTOR_LENGTH)
            r == zbc_scsi_report_zones(d, ro, lba, len)
            p == zbc_scsi_report_zones(d, ro + ZBC_RZ_RO_PARTIAL, lba, len)
        IN /\ r.ret = TCMU_STS_OK
           /\ RzCount(r.hdr) = total
           /\ Len(r.desc) = fit
           /\ p.ret = TCMU_STS_OK
           /\ RzCount(p.hdr) = fit
           /\ Len(p.desc) = fit

\* A REPORT ZONES without PARTIAL has returned two records and a count of
\* more than two, and the same command with PARTIAL returns a count of two.
C33_Witness ==
    /\ rsp.ret = TCMU_STS_OK
    /\ Len(rsp.desc) = 2
    /\ \E ro \in RzOptions :
         LET len == ZBC_ZONE_DESCRIPTOR_OFFSET + 2 * ZBC_ZONE_DESCRIPTOR_LENGTH
             r == zbc_scsi_report_zones(zdev, ro, 0, len)
             p == zbc_scsi_report_zones(zdev, ro + ZBC_RZ_RO_PARTIAL, 0, len)
         IN /\ r.ret = TCMU_STS_OK
            /\ rsp = [ret |-> r.ret, hdr |-> r.hdr, desc |-> r.desc]
            /\ RzCount(r.hdr) > 2
            /\ RzCount(p.hdr) = 2
            /\ zbc_zone_imp_open(zdev.zones[rsp.desc[2].start \div zdev.zone_size])

ZBC_RR_RO_ALL == 0

ZBC_RR_RO_SOBR == 1

ZBC_RR_RO_SWR == 2

ZBC_RR_RO_SWP == 3

ZBC_RPT_REALMS_HEADER_SIZE == 64

ZBC_RPT_REALMS_DESC_OFFSET == 16

ZBC_RR_START_END_DESC_SIZE == 32

\* Test if a realm must be reported.
zbc_should_report_realm(r, ro) ==
    CASE ro = ZBC_RR_RO_ALL -> TRUE
      [] ro = ZBC_RR_RO_SOBR -> r.type = ZBC_ZONE_TYPE_SEQ_OR_BEF_REQ
      [] ro = ZBC_RR_RO_SWR -> r.type = ZBC_ZONE_TYPE_SEQWRITE_REQ
      [] ro = ZBC_RR_RO_SWP -> r.type = ZBC_ZONE_TYPE_SEQWRITE_PREF
      [] OTHER -> FALSE

\* First loop of zbc_report_realms(): the number of realms to report from
\* realm i on with sz bytes of room, and the start LBA of the first realm
\* that does not fit (0 if every realm fits).
RECURSIVE zbc_report_realms_count(_, _, _, _, _, _)
zbc_report_realms_count(d, i, ro, zt, sz, desc_len) ==
    IF i >= d.nr_realms THEN [nr_rpt_realms |-> 0, next |-> 0]
    ELSE IF zbc_should_report_realm(d.realms[i], ro)
    THEN IF sz < desc_len
         THEN [nr_rpt_realms |-> 0, next |-> zbc_realm_start(d.realms[i], zt)]
         ELSE LET c == zbc_report_realms_count(d, i + 1, ro, zt,
                                               sz - desc_len, desc_len)
              IN [c EXCEPT !.nr_rpt_realms = @ + 1]
    ELSE zbc_report_realms_count(d, i + 1, ro, zt, sz, desc_len)

\* Second loop of zbc_report_realms(): the realm descriptors copied to the
\* data buffer from realm j on, len being the room left in the buffer and
\* nr_rpt_realms the count left from the first loop, which is above 0 when
\* a descriptor fits: the two loops start with the same room.
RECURSIVE zbc_report_realms_fill(_, _, _, _, _, _)
zbc_report_realms_fill(d, j, ro, len, desc_len, nr_rpt_realms) ==
    IF j >= d.nr_realms \/ len < desc_len THEN << >>
    ELSE IF ~zbc_should_report_realm(d.realms[j], ro)
    THEN zbc_report_realms_fill(d, j + 1, ro, len, desc_len, nr_rpt_realms)
    ELSE LET r == d.realms[j]
             rec == [number |-> r.number,
                     domain |-> zbc_domain_id(d, r.type),
                     ranges |->
                         [i \in 0..(d.nr_domains - 1) |->
                             LET ri == r.ri[d.domains[i].type] IN
                             IF zbc_can_actv_realm_as(r, d.domains[i].type)
                             THEN <<ri.start_lba,
                                    ri.start_lba
                                    + ri.length * d.zone_size - 1>>
                             ELSE <<0, 0>>]]
         IN <<rec>> \o (IF nr_rpt_realms - 1 = 0 THEN << >>
                        ELSE zbc_report_realms_fill(
                                 d, j + 1, ro, len - desc_len, desc_len,
                                 nr_rpt_realms - 1))

\* REPORT REALMS into a data buffer of "len" bytes, the allocation length
\* of the CDB: the status, the header (the realm count, the descriptor
\* length and the next realm locator) and the realm descriptors.
zbc_report_realms(d, ro, start_lba, len) ==
    LET fail(asc) == [d |-> d, ret |-> zbc_set_sense("ILLEGAL_REQUEST", asc),
                      hdr |-> << >>, desc |-> << >>]
        zone == zbc_get_zone(d, start_lba, FALSE)
        rz == zbc_get_zone_realm(d, start_lba, FALSE)
        desc_len == ZBC_RR_START_END_DESC_SIZE * d.nr_domains
                    + ZBC_RPT_REALMS_DESC_OFFSET
        c == zbc_report_realms_count(d, rz.r, ro, rz.zone_type,
                                     len - ZBC_RPT_REALMS_HEADER_SIZE,
                                     desc_len)
    IN IF ro \notin {ZBC_RR_RO_ALL, ZBC_RR_RO_SOBR, ZBC_RR_RO_SWR,
                     ZBC_RR_RO_SWP}
       THEN fail("ASC_INVALID_FIELD_IN_CDB")
       ELSE IF zbc_lba_out_of_range(d, start_lba, 0)
       THEN fail("ASC_LBA_OUT_OF_RANGE")
       ELSE IF zone = NULL THEN fail("ASC_INVALID_FIELD_IN_CDB")
       ELSE IF zbc_zone_gap(d.zones[zone])
       THEN fail("ASC_ATTEMPT_TO_ACCESS_GAP_ZONE")
       ELSE IF rz.r < 0 THEN fail("ASC_INVALID_FIELD_IN_CDB")
       ELSE IF len < ZBC_RPT_REALMS_HEADER_SIZE
       THEN fail("ASC_INVALID_FIELD_IN_CDB")
       ELSE IF c.next # 0 /\ c.next = start_lba
       THEN fail("ASC_INVALID_FIELD_IN_CDB")
       ELSE [d |-> d, ret |-> TCMU_STS_OK,
             hdr |-> [nr_realms |-> d.nr_realms, desc_len |-> desc_len,
                      next |-> c.next],
             desc |-> zbc_report_realms_fill(
                          d, rz.r, ro, len - ZBC_RPT_REALMS_HEADER_SIZE,
                          desc_len, c.nr_rpt_realms)]

\* The reporting options are the low six bits of byte 14 of the CDB.
zbc_scsi_report_realms(d, cdb14, lba, len) ==
    zbc_report_realms(d, cdb14 % 64, lba, len)

RrOptions == {ZBC_RR_RO_ALL, ZBC_RR_RO_SOBR, ZBC_RR_RO_SWR, ZBC_RR_RO_SWP}

\* A buffer that holds the header and a descriptor of every realm.
RrUnbounded ==
    ZBC_RPT_REALMS_HEADER_SIZE
    + zdev.nr_realms * (ZBC_RR_START_END_DESC_SIZE * zdev.nr_domains
                        + ZBC_RPT_REALMS_DESC_OFFSET)

\* REPORT REALMS is a command of Zone Domains devices with the realms
\* feature; the commands issued report the realms of every option from the
\* first LBA into a buffer that holds them all.
ReportRealms ==
    /\ nr_ops < CmdBound(zdev)
    /\ nr_ops' = nr_ops + 1
    /\ UNCHANGED fw
    /\ \E ro \in RrOptions :
         LET d == _zbc_handle_cmd(zdev)
             r == IF zbc_mt_zd(d) /\ d.realms_feat_set
                  THEN zbc_scsi_report_realms(d, ro, 0, RrUnbounded)
                  ELSE [d |-> d,
                        ret |-> zbc_set_sense("ILLEGAL_REQUEST",
                                              "ASC_INVALID_FIELD_IN_CDB"),
                        hdr |-> << >>, desc |-> << >>]
         IN /\ zdev' = r.d
            /\ rsp' = [ret |-> r.ret, hdr |-> r.hdr, desc |-> r.desc]

\* The commands that change zone conditions and zone types, and the reports.
RptNext ==
    \/ CloseZone
    \/ FinishZone
    \/ OpenZone
    \/ Write
    \/ ZoneActivate
    \/ ReportZones
    \/ ReportRealms

SpecRpt == Init /\ [][RptNext]_vars

\* The realms of device d from the one that holds start_lba onward whose
\* current type satisfies reporting option ro.
RrMatching(d, ro, start_lba) ==
    {i \in 0..(d.nr_realms - 1) :
        /\ i >= zbc_get_zone_realm(d, start_lba, FALSE).r
        /\ zbc_should_report_realm(d.realms[i], ro)}

\* The realm locators tried: the start of every zone.
RrLbas == {z * zdev.zone_size : z \in 0..(zdev.nr_zones - 1)}

\* C34: the count in the REPORT REALMS header equals the number of realm
\* records the command returns given an unbounded buffer, the number of
\* realms from the locator onward whose current type matches the reporting
\* option (ALL, SOBR, SWR, SWP).
C34_ReportRealmsCount ==
    (zbc_mt_zd(zdev) /\ zdev.realms_feat_set)
    => \A ro \in RrOptions, lba \in RrLbas :
          LET d == _zbc_handle_cmd(zdev)
              r == zbc_scsi_report_realms(d, ro, lba, RrUnbounded)
          IN r.ret = TCMU_STS_OK
             => /\ r.hdr.nr_realms = Len(r.desc)
                /\ r.hdr.nr_realms = Cardinality(RrMatching(d, ro, lba))

\* The zones that are Inactive in device e and were not in the current
\* state.
Deactivated(e) ==
    {i \in DOMAIN zdev.zones :
        /\ zbc_zone_inactive(e.zones[i])
        /\ ~zbc_zone_inactive(zdev.zones[i])}

\* C35: a successful ZONE ACTIVATE without ALL never makes Inactive a zone
\* that was ImpOpen, ExpOpen, Closed or Full right before the command: every
\* zone it deactivates was Empty, or a Conventional zone in condition NotWP,
\* with and without the realms feature and for every sub-range of a realm.
C35_DeactivatesOnlyEmpty ==
    \A a \in ActvArgs :
        ~a.all =>
            \A r \in Activated(a) :
                \A i \in Deactivated(r.d) :
                    \/ zbc_zone_empty(zdev.zones[i])
                    \/ /\ zbc_zone_conv(zdev.zones[i])
                       /\ zbc_zone_not_wp(zdev.zones[i])

(***************************************************************************)
(* The Zone Domains devices driven by ZONE ACTIVATE commands for ranges of *)
(* zones, OPEN ZONE commands and one-LBA writes: long enough a run to      *)
(* activate zones, open one of them and activate its realm again.          *)
(***************************************************************************)
\* Bound on the number of commands issued to the device.
MaxOpenCmds == 3

OpensInit ==
    /\ \E cfg \in {c \in Configs : c.dev_type = ZBC_MT_ZONE_DOM} :
         zdev = zbc_open_backstore(cfg)
    /\ rsp = zbc_rsp(TCMU_STS_OK)
    /\ nr_ops = 0
    /\ fw = tcmur_idle

\* ZONE ACTIVATE(16) without ALL, with the zone count in the CDB.
OpensActivate ==
    /\ nr_ops < MaxOpenCmds
    /\ nr_ops' = nr_ops + 1
    /\ UNCHANGED fw
    /\ \E a \in {x \in ActvArgs : ~x.all /\ x.nozsrc /\ x.nzsrc > 0
                                  /\ x.start_lba % zdev.zone_size = 0} :
         \E oob \in OobWords(zdev, a) :
           LET r == zbc_scsi_in(_zbc_handle_cmd(zdev),
                                "ZBC_SA_ZONE_ACTIVATE_16", a, oob)
           IN /\ zdev' = r.d
              /\ rsp' = [ret |-> r.ret, hdr |-> r.hdr, desc |-> r.desc]

\* OPEN ZONE of one zone.
OpensOpen ==
    /\ nr_ops < MaxOpenCmds
    /\ nr_ops' = nr_ops + 1
    /\ UNCHANGED fw
    /\ \E i \in DOMAIN zdev.zones :
         LET r == zbc_out_zone(_zbc_handle_cmd(zdev), zdev.zones[i].start, 0,
                               "ZBC_SA_OPEN_ZONE", FALSE, 0)
         IN /\ zdev' = r.d
            /\ rsp' = zbc_rsp(r.ret)

\* WRITE of one LBA at the start of a zone.
OpensWrite ==
    /\ nr_ops < MaxOpenCmds
    /\ nr_ops' = nr_ops + 1
    /\ UNCHANGED fw
    /\ \E i \in DOMAIN zdev.zones :
         LET r == zbc_write_zoned(_zbc_handle_cmd(zdev),
                                  zdev.zones[i].start, 1)
         IN /\ zdev' = r.d
            /\ rsp' = zbc_rsp(r.ret)

OpensNext ==
    \/ OpensActivate
    \/ OpensOpen
    \/ OpensWrite

SpecOpens == OpensInit /\ [][OpensNext]_vars

\* The SWR zones of the device that are in condition cond.
SwrZonesIn(cond) ==
    {i \in DOMAIN zdev.zones :
        zbc_zone_seq_req(zdev.zones[i]) /\ zdev.zones[i].cond = cond}

\* C36: after any sequence of commands the implicit-open counter is the
\* number of SWR zones in condition ImpOpen and the explicit-open counter is
\* the number of SWR zones in condition ExpOpen.
C36_OpenCounters ==
    /\ zdev.nr_imp_open = Cardinality(SwrZonesIn(ZBC_ZONE_COND_IMP_OPEN))
    /\ zdev.nr_exp_open = Cardinality(SwrZonesIn(ZBC_ZONE_COND_EXP_OPEN))

(***************************************************************************)
(* The same commands on Zone Domains devices created with a maximum        *)
(* activation of two zones (the "maxact-2" configuration option).          *)
(***************************************************************************)
MaxActInit ==
    /\ \E cfg \in {c \in Configs : c.dev_type = ZBC_MT_ZONE_DOM} :
         zdev = zbc_open_backstore([cfg EXCEPT !.max_activate = 2])
    /\ rsp = zbc_rsp(TCMU_STS_OK)
    /\ nr_ops = 0
    /\ fw = tcmur_idle

SpecMaxAct == MaxActInit /\ [][OpensNext]_vars

\* The number of zones activation command a asks for: the zones of the
\* domain with ALL, the count of the CDB with NOZSRC, FSNOZ otherwise.
ActvRequested(a) ==
    IF a.all THEN zdev.domains[a.domain_id].nr_zones
    ELSE IF a.nozsrc THEN a.nzsrc
    ELSE zdev.nr_actv_zones

\* C37: when max-activate is non-zero, a ZONE ACTIVATE that asks for more
\* than max-activate zones changes no zone and no realm.
C37_MaxActivate ==
    zdev.max_activate # 0 =>
        \A a \in {x \in ActvArgs : x.domain_id < zdev.nr_domains} :
            ActvRequested(a) > zdev.max_activate =>
                \A oob \in OobWords(zdev, a) :
                    LET r == zbc_scsi_in(_zbc_handle_cmd(zdev),
                                         "ZBC_SA_ZONE_ACTIVATE_16", a, oob)
                    IN /\ r.d.zones = zdev.zones
                       /\ r.d.realms = zdev.realms

\* The zones whose write pointer is lower in device e than in the current
\* state.
WpLowered(e) ==
    {i \in DOMAIN zdev.zones : e.zones[i].wp < zdev.zones[i].wp}

\* C38: no WRITE, OPEN ZONE, CLOSE ZONE or FINISH ZONE command lowers the
\* write pointer of a zone.
C38_WpNeverDecreases ==
    LET d == _zbc_handle_cmd(zdev) IN
    /\ \A lba \in Lbas, len \in {1, MaxLen} :
           WpLowered(zbc_write_zoned(d, lba, len).d) = {}
    /\ \A sa \in {"ZBC_SA_OPEN_ZONE", "ZBC_SA_CLOSE_ZONE",
                  "ZBC_SA_FINISH_ZONE"},
          a \in {x \in ZoneOutArgs : x[2] <= 1} :
           \A oob \in OobDomain(zdev, a[1], a[2]) :
               WpLowered(zbc_out_zone(d, a[1], a[2], sa, a[3], oob).d) = {}

\* A WRITE has left a SWR zone open with its write pointer inside the zone:
\* a FINISH ZONE of the zone moves the write pointer to the end of the zone,
\* a CLOSE ZONE leaves it, and a WRITE of one LBA moves it by one.
C38_Witness ==
    /\ rsp.ret = TCMU_STS_OK
    /\ nr_ops > 0
    /\ \E i \in DOMAIN zdev.zones :
         LET z == zdev.zones[i]
             f == zbc_out_zone(zdev, z.start, 0, "ZBC_SA_FINISH_ZONE",
                               FALSE, 0)
             c == zbc_out_zone(zdev, z.start, 0, "ZBC_SA_CLOSE_ZONE",
                               FALSE, 0)
             w == zbc_write_zoned(zdev, z.wp, 1)
         IN /\ zbc_zone_seq_req(z) /\ zbc_zone_imp_open(z)
            /\ z.start < z.wp /\ z.wp < z.start + z.len
            /\ f.ret = TCMU_STS_OK /\ f.d.zones[i].wp = z.start + z.len
            /\ c.ret = TCMU_STS_OK /\ c.d.zones[i].wp = z.wp
            /\ zbc_zone_closed(c.d.zones[i])
            /\ w.ret = TCMU_STS_OK /\ w.d.zones[i].wp = z.wp + 1

(***************************************************************************)
(* RECEIVE DIAGNOSTIC RESULTS and SANITIZE                                 *)
(***************************************************************************)
ZBC_ZBD_LOG_SUPP_PAGES == 0

ZBC_ZBD_LOG_STATS == 20

ZBC_LOG_PARAM_RECORD_SIZE == 12

ZBC_NR_STAT_PARAMS == 11

\* The log parameter with the given code: its code and value, for the
\* counters the device record keeps.
zbc_fill_stat_log_param(d, code) ==
    [code |-> code,
     val |-> CASE code = 0 -> d.stats.max_open_zones
               [] code = 1 -> d.stats.max_exp_open_seq_zones
               [] code = 2 -> d.stats.max_imp_open_seq_zones
               [] code = 3 -> d.stats.min_empty_zones
               [] code = 8 -> d.stats.failed_exp_opens
               [] code = 9 -> d.stats.read_rule_fails
               [] code = 10 -> d.stats.write_rule_fails
               [] OTHER -> 0]

\* cdb1 is byte 1 of the CDB, page is byte 2 and len is the allocation
\* length of bytes 3 and 4.  The page returned is hdr and desc.
zbc_scsi_receive_diag(d, cdb1, page0, len) ==
    LET page == IF cdb1 % 2 = 1 THEN page0 ELSE ZBC_ZBD_LOG_SUPP_PAGES
        size == ZBC_LOG_PARAM_RECORD_SIZE * ZBC_NR_STAT_PARAMS + 4
        no_room == [d |-> d,
                    ret |-> zbc_set_sense("ILLEGAL_REQUEST",
                                "ASC_INVALID_FIELD_IN_PARAMETER_LIST"),
                    hdr |-> << >>, desc |-> << >>]
    IN IF cdb1 % 2 = 1 /\ page0 # ZBC_ZBD_LOG_SUPP_PAGES
                       /\ page0 # ZBC_ZBD_LOG_STATS
       THEN [d |-> d,
             ret |-> zbc_set_sense("ILLEGAL_REQUEST",
                                   "ASC_INVALID_FIELD_IN_CDB"),
             hdr |-> << >>, desc |-> << >>]
       ELSE IF page = ZBC_ZBD_LOG_SUPP_PAGES
       THEN IF len < 6 THEN no_room
            ELSE [d |-> d, ret |-> TCMU_STS_OK,
                  hdr |-> [page |-> ZBC_ZBD_LOG_SUPP_PAGES, subpage |-> 0,
                           length |-> 2],
                  desc |-> <<ZBC_ZBD_LOG_SUPP_PAGES, ZBC_ZBD_LOG_STATS>>]
       ELSE IF len < size THEN no_room
            ELSE [d |-> d, ret |-> TCMU_STS_OK,
                  hdr |-> [page |-> ZBC_ZBD_LOG_STATS, subpage |-> 1,
                           length |-> size - 4],
                  desc |-> [i \in 1..ZBC_NR_STAT_PARAMS |->
                               zbc_fill_stat_log_param(d, i - 1)]]

\* The creation time zbc_write_meta_common() stamps into the metadata
\* header: now is the value time() returns.  The devices of SpecDiag carry
\* it, the other specifications leave it out.
zbc_write_meta_time(d, now) ==
    [d EXCEPT !.meta = [time_create |-> now] @@ @]

\* SANITIZE: cdb1 is byte 1 of the CDB and now the clock reading at the
\* time the metadata is formatted.
zbc_sanitize(d, cdb1, now) ==
    IF cdb1 % 32 # 3 \/ (cdb1 \div 64) % 2 # 0
    THEN [d |-> d,
          ret |-> zbc_set_sense("ILLEGAL_REQUEST",
                                "ASC_INVALID_FIELD_IN_CDB"),
          hdr |-> << >>, desc |-> << >>]
    ELSE LET f == zbc_format_meta([d EXCEPT !.cfg.mutating = TRUE])
         IN IF ~f.ok
            THEN [d |-> [f EXCEPT !.cfg.mutating = FALSE],
                  ret |-> zbc_set_sense("HARDWARE_ERROR",
                                        "ASC_INTERNAL_TARGET_FAILURE"),
                  hdr |-> << >>, desc |-> << >>]
            ELSE [d |-> [zbc_write_meta_time(f, now) EXCEPT
                            !.cfg.mutating = FALSE],
                  ret |-> TCMU_STS_OK, hdr |-> << >>, desc |-> << >>]

\* The RECEIVE DIAGNOSTIC RESULTS case of _zbc_handle_cmd(): the case has
\* no break, so control of a device that is not zoned runs on into the
\* SANITIZE case.
zbc_receive_diag_case(d, cdb1, page, len, now) ==
    IF zbc_mt_zoned(d) THEN zbc_scsi_receive_diag(d, cdb1, page, len)
    ELSE zbc_sanitize(d, cdb1, now)

\* Bound on the number of commands issued to the device.
MaxDiagCmds == 3

\* Bound on the clock readings.
MaxTime == 2

\* A configuration string of each device type, the Non-Zoned one included,
\* and a backstore formatted at time 0.
DiagInit ==
    /\ \E cfg \in Configs \cup
                  { zbc_dev_config @@
                      [dev_type |-> ZBC_MT_NON_ZONED,
                       dev_model |-> ZBC_MO_NZ_GENERIC,
                       realms_feat_set |-> FALSE, mutating |-> FALSE] } :
         zdev = zbc_write_meta_time(zbc_open_backstore(cfg), 0)
    /\ rsp = zbc_rsp(TCMU_STS_OK)
    /\ nr_ops = 0
    /\ fw = tcmur_idle

\* The values of CDB byte 1: nothing set, PCV, PCV with the reserved bit 1,
\* and the latter with bit 6.
DiagCdb1 == {0, 1, 3, 67}

DiagPages == {ZBC_ZBD_LOG_SUPP_PAGES, 1, ZBC_ZBD_LOG_STATS}

DiagLens == {0, 6, ZBC_LOG_PARAM_RECORD_SIZE * ZBC_NR_STAT_PARAMS + 4}

\* The clock readings from the creation time of the metadata on.
DiagTimes == zdev.meta.time_create..MaxTime

ReceiveDiag ==
    /\ nr_ops < MaxDiagCmds
    /\ nr_ops' = nr_ops + 1
    /\ UNCHANGED fw
    /\ \E cdb1 \in DiagCdb1, page \in DiagPages, len \in DiagLens,
          now \in DiagTimes :
         LET r == zbc_receive_diag_case(_zbc_handle_cmd(zdev), cdb1, page,
                                        len, now)
         IN /\ zdev' = r.d
            /\ rsp' = [ret |-> r.ret, hdr |-> r.hdr, desc |-> r.desc]

\* OPEN ZONE of one zone of a zoned device.
DiagOpen ==
    /\ zbc_mt_zoned(zdev)
    /\ OpensOpen

\* WRITE of one LBA at the start of a zone of a zoned device.
DiagWrite ==
    /\ zbc_mt_zoned(zdev)
    /\ OpensWrite

DiagNext ==
    \/ ReceiveDiag
    \/ DiagOpen
    \/ DiagWrite

SpecDiag == DiagInit /\ [][DiagNext]_vars

\* The device metadata: the header and the zone and realm arrays.
DiagMeta(d) ==
    [meta |-> d.meta, zones |-> d.zones, realms |-> d.realms,
     domains |-> d.domains]

\* C39: RECEIVE DIAGNOSTIC RESULTS never modifies or reformats the device
\* metadata on any device type: whatever the CDB, the metadata header, the
\* zones and the realms are left as they were, and the command returns a
\* diagnostic page, a sense error or NOT_HANDLED.
C39_ReceiveDiagKeepsMeta ==
    \A cdb1 \in DiagCdb1, page \in DiagPages, len \in DiagLens,
       now \in DiagTimes :
        LET r == zbc_receive_diag_case(_zbc_handle_cmd(zdev), cdb1, page,
                                       len, now)
        IN /\ DiagMeta(r.d) = DiagMeta(zdev)
           /\ \/ r.ret = TCMU_STS_OK /\ r.hdr # << >>
              \/ r.ret[1] # "NO_SENSE"
              \/ r.ret = TCMU_STS_NOT_HANDLED

\* RESET WRITE POINTER with ALL and a count of 0 on the current state.
ResetAll == zbc_reset_wp(_zbc_handle_cmd(zdev), 0, 0, TRUE, 0)

\* The zones that are Full, Closed, ImpOpen or ExpOpen in the current state.
ResettableZones ==
    {i \in DOMAIN zdev.zones :
        \/ zbc_zone_full(zdev.zones[i])
        \/ zbc_zone_closed(zdev.zones[i])
        \/ zbc_zone_is_open(zdev.zones[i])}

\* C40: after RESET WRITE POINTER with ALL, the implicit-open, explicit-open
\* and closed lists are empty, no zone is open, and every zone that was Full,
\* Closed, ImpOpen or ExpOpen before the command is Empty with its write
\* pointer at its start and linked in the seq-active list.
C40_ResetAll ==
    LET r == ResetAll IN
    /\ r.ret = TCMU_STS_OK
    /\ r.d.imp_open_zones = zbc_init_zone_list
    /\ r.d.exp_open_zones = zbc_init_zone_list
    /\ r.d.closed_zones = zbc_init_zone_list
    /\ \A i \in DOMAIN r.d.zones : ~zbc_zone_is_open(r.d.zones[i])
    /\ \A i \in ResettableZones :
         /\ zbc_zone_empty(r.d.zones[i])
         /\ r.d.zones[i].wp = r.d.zones[i].start
         /\ "seq_active_zones" \in ListsOf(r.d, i)

\* Two zones have been taken out of the Empty condition by two commands
\* and the third command, a RESET WRITE POINTER, has made both Empty again:
\* the open and closed lists are empty and a reset zone heads the seq-active
\* list.
C40_Witness ==
    /\ rsp.ret = TCMU_STS_OK
    /\ nr_ops = 3
    /\ zdev.imp_open_zones.size = 0
    /\ zdev.exp_open_zones.size = 0
    /\ zdev.closed_zones.size = 0
    /\ zdev.stats.nr_cdb_cmds = nr_ops
    /\ \E i \in DOMAIN zdev.zones :
         /\ zbc_zone_seq(zdev.zones[i])
         /\ zbc_zone_empty(zdev.zones[i])
         /\ zdev.seq_active_zones.head = i
    /\ zdev.nr_empty_zones = zdev.stats.min_empty_zones + 2

====
